---- MODULE Spec2Model ----
(***************************************************************************)
(* A model of khtml.py: the tokenizer HTMLParser (character level) and the *)
(* tree builder HTMLDocument._load / _loadChildren driven by it.           *)
(*                                                                         *)
(* Strings are sequences of one-character strings.  Positions are the      *)
(* 0-based positions of the Python code: At(html, p) is html[p].           *)
(***************************************************************************)
EXTENDS Integers, Sequences, FiniteSets, TLC

VARIABLES
  document,    \* the HTMLDocument: _text, _strict, _comments, _rootList and the shortcuts
  parser,      \* the HTMLParser of _load: _position, _segmentCurrent, _segmentNext
  nodes,       \* the HTMLNode objects created so far; a node is named by its index
  stack,       \* the call stack: the frame of _load and above it those of _loadChildren
  pc,          \* "loop", "return", "done" or "raised"
  response,    \* the value the frame that just returned has returned
  exc,         \* the exception that ended the construction, or ""
  unresolved,  \* history: the last close segment that did not match the innermost element
  closure,     \* history: how the element of each node ended
  searching,   \* the call of HTMLElementNode.search under way on the constructed tree
  returnValue  \* what the last call made on the constructed document has returned

vars ==
  <<document, parser, nodes, stack, pc, response, exc, unresolved, closure,
    searching, returnValue>>

(***************************************************************************)
(* Python values                                                           *)
(***************************************************************************)

\* `return None` of the position-returning readers
None == -1

\* self._html[position] with position >= len(self._html): IndexError
IndexError == -2

Whitespace == {" ", "\t", "\n", "\r"}

UpperChars == <<"A", "B", "C", "D", "E", "F", "G", "H", "I", "J", "K", "L", "M",
                "N", "O", "P", "Q", "R", "S", "T", "U", "V", "W", "X", "Y", "Z">>

LowerChars == <<"a", "b", "c", "d", "e", "f", "g", "h", "i", "j", "k", "l", "m",
                "n", "o", "p", "q", "r", "s", "t", "u", "v", "w", "x", "y", "z">>

Digits == {"0", "1", "2", "3", "4", "5", "6", "7", "8", "9"}

Range(s) == {s[i] : i \in DOMAIN s}

isspace(c) == c \in Whitespace

isalpha(c) == c \in Range(UpperChars) \cup Range(LowerChars)

isalnum(c) == isalpha(c) \/ c \in Digits

lowerChar(c) ==
  IF c \in Range(UpperChars)
  THEN LowerChars[CHOOSE i \in DOMAIN UpperChars : UpperChars[i] = c]
  ELSE c

upperChar(c) ==
  IF c \in Range(LowerChars)
  THEN UpperChars[CHOOSE i \in DOMAIN LowerChars : LowerChars[i] = c]
  ELSE c

\* str.lower()
lower(s) == [i \in DOMAIN s |-> lowerChar(s[i])]

\* str.upper()
upper(s) == [i \in DOMAIN s |-> upperChar(s[i])]

\* html[p], for 0 <= p < len(html)
At(html, p) == html[p + 1]

\* html[a:b], a Python slice: the bounds are clamped to the string
Slice(html, a, b) ==
  SubSeq(html, a + 1, IF b > Len(html) THEN Len(html) ELSE b)

RECURSIVE lstrip(_)
lstrip(s) ==
  IF s # <<>> /\ isspace(Head(s)) THEN lstrip(Tail(s)) ELSE s

RECURSIVE rstrip(_)
rstrip(s) ==
  IF s # <<>> /\ isspace(s[Len(s)]) THEN rstrip(SubSeq(s, 1, Len(s) - 1)) ELSE s

\* str.strip()
strip(s) == rstrip(lstrip(s))

\* str.startswith for a one-character prefix
startswith(s, c) == s # <<>> /\ s[1] = c

\* html.find(sub, position): the first index >= position where sub occurs, or -1
RECURSIVE find(_, _, _)
find(html, sub, position) ==
  IF position + Len(sub) > Len(html) THEN -1
  ELSE IF Slice(html, position, position + Len(sub)) = sub THEN position
  ELSE find(html, sub, position + 1)

(***************************************************************************)
(* Segments: HTMLParserElementSegment, HTMLParserTextSegment,              *)
(* HTMLParserCommentSegment as one record shape; kind "None" is Python's   *)
(* None and kind "IndexError" an IndexError raised while reading.          *)
(* attributes is the insertion-ordered dict, a sequence of <<key, value>>. *)
(***************************************************************************)

HTMLParserSegment(kind) ==
  [kind |-> kind, name |-> <<>>, attributes |-> <<>>, open |-> FALSE,
   close |-> FALSE, text |-> <<>>, start |-> 0, end |-> 0]

NoSegment == HTMLParserSegment("None")

RaisedSegment == HTMLParserSegment("IndexError")

HTMLParserElementSegment(name, attributes, open, close, start, end) ==
  [kind |-> "element", name |-> name, attributes |-> attributes, open |-> open,
   close |-> close, text |-> <<>>, start |-> start, end |-> end]

HTMLParserTextSegment(text, start, end) ==
  [kind |-> "text", name |-> <<>>, attributes |-> <<>>, open |-> FALSE,
   close |-> FALSE, text |-> text, start |-> start, end |-> end]

HTMLParserCommentSegment(comment, start, end) ==
  [kind |-> "comment", name |-> <<>>, attributes |-> <<>>, open |-> FALSE,
   close |-> FALSE, text |-> comment, start |-> start, end |-> end]

\* name in attributes
hasKey(attributes, name) == \E i \in DOMAIN attributes : attributes[i][1] = name

\* attributes[name] = value: a new key is appended, an existing key keeps its place
setItem(attributes, name, value) ==
  IF hasKey(attributes, name)
  THEN [i \in DOMAIN attributes |->
          IF attributes[i][1] = name THEN <<name, value>> ELSE attributes[i]]
  ELSE Append(attributes, <<name, value>>)

contextSwitchTags ==
  { <<"s", "c", "r", "i", "p", "t">>,
    <<"s", "t", "y", "l", "e">>,
    <<"b", "l", "o", "c", "k">> }

alwaysSelfClosing ==
  { <<"!", "d", "o", "c", "t", "y", "p", "e">>,
    <<"m", "e", "t", "a">>,
    <<"i", "n", "p", "u", "t">>,
    <<"b", "r">>,
    <<"i", "m", "g">> }

(***************************************************************************)
(* HTMLParser: the parsing utility methods                                 *)
(***************************************************************************)

RECURSIVE readWhitespace(_, _)
readWhitespace(html, position) ==
  IF position < Len(html) /\ isspace(At(html, position))
  THEN readWhitespace(html, position + 1)
  ELSE position

unwrap(text) ==
  IF startswith(text, "\"") \/ startswith(text, "'")
  THEN SubSeq(text, 2, Len(text) - 1)
  ELSE text

DoctypeName == <<"!", "D", "O", "C", "T", "Y", "P", "E">>

readTagNameDoctype(html, strict, position) ==
  LET end == position + Len(DoctypeName) IN
  IF end < Len(html)
     /\ (Slice(html, position, end) = DoctypeName
         \/ (~strict /\ upper(Slice(html, position, end)) = DoctypeName))
  THEN IF isspace(At(html, end)) \/ At(html, end) \in {"/", ">"}
       THEN end
       ELSE None
  ELSE None

\* the while loop of _readTagName: the position it stops at, or None
RECURSIVE readTagNameLoop(_, _, _, _)
readTagNameLoop(html, strict, start, position) ==
  IF position >= Len(html) THEN position
  ELSE LET char == At(html, position) IN
       IF isspace(char) \/ char \in {"/", ">"} THEN position
       ELSE IF strict /\ position = start /\ ~isalpha(char) /\ char # "_" THEN None
       ELSE IF strict /\ position # start /\ ~isalnum(char)
               /\ char \notin {"-", "_", "."} THEN None
       ELSE readTagNameLoop(html, strict, start, position + 1)

readTagName(html, strict, position) ==
  LET plain(stop) == IF stop # None /\ stop > position THEN stop ELSE None
      doctype(result) ==
        IF result # None THEN result
        ELSE plain(readTagNameLoop(html, strict, position, position))
  IN doctype(readTagNameDoctype(html, strict, position))

\* the quoted-string loop shared by _readTagAttributeProperty and
\* _readTagAttributeValue: the position after the closing quote, or None
RECURSIVE readQuoted(_, _, _)
readQuoted(html, quote, position) ==
  IF position >= Len(html) THEN None
  ELSE LET char == At(html, position) IN
       IF char = quote THEN position + 1
       ELSE IF char = "\\" THEN readQuoted(html, quote, position + 2)
       ELSE readQuoted(html, quote, position + 1)

\* `not char.isalnum` tests the bound method, which is always true
notIsalnumMethod(char) == FALSE

RECURSIVE readPropertyLoop(_, _, _)
readPropertyLoop(html, strict, position) ==
  IF position >= Len(html) THEN position
  ELSE LET char == At(html, position) IN
       IF isspace(char) \/ char \in {"=", "/", ">"} THEN position
       ELSE IF strict /\ notIsalnumMethod(char) /\ char \notin {"-", "_", "."}
            THEN None
       ELSE readPropertyLoop(html, strict, position + 1)

readTagAttributeProperty(html, strict, position) ==
  LET plain(stop) == IF stop # None /\ stop > position THEN stop ELSE None IN
  IF position >= Len(html) THEN IndexError
  ELSE IF strict /\ At(html, position) \in {"\"", "'"} THEN None
  ELSE IF At(html, position) \in {"\"", "'"}
       THEN readQuoted(html, At(html, position), position + 1)
  ELSE plain(readPropertyLoop(html, strict, position))

RECURSIVE readUnquotedValue(_, _)
readUnquotedValue(html, position) ==
  IF position >= Len(html) THEN position
  ELSE LET char == At(html, position) IN
       IF isspace(char) \/ char \in {"/", ">"} THEN position
       ELSE readUnquotedValue(html, position + 1)

readTagAttributeValue(html, strict, position) ==
  IF position >= Len(html) THEN IndexError
  ELSE IF At(html, position) \in {"\"", "'"}
       THEN readQuoted(html, At(html, position), position + 1)
  ELSE IF ~strict THEN readUnquotedValue(html, position)
  ELSE None

TrueValue == <<"t", "r", "u", "e">>

\* [result: the end position, None or IndexError; attributes: the dict after the call]
readTagAttribute(html, strict, position0, attributes) ==
  LET fail(r) == [result |-> r, attributes |-> attributes]
      \* lines 1081-1086
      store(name, value, position) ==
        IF strict /\ hasKey(attributes, name) THEN fail(None)
        ELSE [result |-> position, attributes |-> setItem(attributes, name, value)]
      \* lines 1071-1076, the value read from `position` up to `result`
      valued(name, position, result) ==
        IF result \in {None, IndexError} THEN fail(result)
        ELSE store(name, unwrap(Slice(html, position, result)), result)
      \* lines 1067-1079
      named(name, position) ==
        IF position >= Len(html) THEN fail(IndexError)
        ELSE IF At(html, position) = "="
             THEN valued(name, position + 1,
                         readTagAttributeValue(html, strict, position + 1))
        ELSE store(name, TrueValue, position)
      \* lines 1060-1065, the name read from `position` up to `result`
      property(position, result) ==
        IF result \in {None, IndexError} THEN fail(result)
        ELSE named(lower(strip(unwrap(Slice(html, position, result)))),
                   readWhitespace(html, result))
      at(position) == property(position, readTagAttributeProperty(html, strict, position))
  IN at(readWhitespace(html, position0))

(***************************************************************************)
(* HTMLParser: the parsing main methods                                    *)
(***************************************************************************)

\* the `while (result := self._readTagAttribute(...)) is not None` loop of
\* _readTag: [position: where the loop stops, or IndexError; attributes]
RECURSIVE readTagAttributes(_, _, _, _)
readTagAttributes(html, strict, position, attributes) ==
  LET read(r) ==
        IF r.result = IndexError
        THEN [position |-> IndexError, attributes |-> attributes]
        ELSE IF r.result = None
        THEN [position |-> position, attributes |-> attributes]
        ELSE readTagAttributes(html, strict, readWhitespace(html, r.result),
                               r.attributes)
  IN read(readTagAttribute(html, strict, position, attributes))

\* _readTag from the self-closing check on (lines 895-914)
readTagEnd(html, strict, start, name, attributes, open, close0, position0) ==
  LET bracket(close, position) ==
        IF position >= Len(html) THEN RaisedSegment
        ELSE IF At(html, position) = ">"
             THEN HTMLParserElementSegment(name, attributes, open, close, start,
                                           position + 1)
        ELSE NoSegment
      slash(close, position) ==
        bracket(close, IF ~strict THEN readWhitespace(html, position) ELSE position)
  IN
  IF position0 >= Len(html) THEN RaisedSegment
  ELSE IF At(html, position0) = "/"
       THEN IF strict /\ close0 THEN NoSegment ELSE slash(TRUE, position0 + 1)
  ELSE slash(close0, position0)

readTag(html, strict, start) ==
  LET attributed(isClose, name, attrs) ==
        IF attrs.position = IndexError THEN RaisedSegment
        ELSE IF isClose /\ Len(attrs.attributes) > 0 THEN NoSegment
        ELSE readTagEnd(html, strict, start, name, attrs.attributes, ~isClose,
                        isClose, attrs.position)
      named(isClose, position, result) ==
        IF result = None THEN NoSegment
        ELSE attributed(isClose, lower(unwrap(Slice(html, position, result))),
                        readTagAttributes(html, strict, readWhitespace(html, result),
                                          <<>>))
      marked(isClose, position) ==
        named(isClose, position, readTagName(html, strict, position))
      opened(isClose, position) ==
        marked(isClose, IF ~strict THEN readWhitespace(html, position) ELSE position)
  IN
  IF At(html, start) # "<" THEN NoSegment
  ELSE IF start + 1 >= Len(html) THEN RaisedSegment
  ELSE IF At(html, start + 1) = "/" THEN opened(TRUE, start + 2)
  ELSE opened(FALSE, start + 1)

CommentStart == <<"<", "!", "-", "-">>

CommentEnd == <<"-", "-", ">">>

readComment(html, start) ==
  IF Slice(html, start, start + Len(CommentStart)) # CommentStart THEN NoSegment
  ELSE
    LET position == start + Len(CommentStart)
        found == find(html, CommentEnd, position)
    IN
    IF found >= 0
    THEN HTMLParserCommentSegment(strip(Slice(html, position, found)), start,
                                  found + Len(CommentEnd))
    ELSE NoSegment

\* the text segment ending at end-of-input (lines 974-980, 1028-1034)
textToEnd(html, strict, start) ==
  IF ~strict
  THEN [segment |-> HTMLParserTextSegment(strip(Slice(html, start, Len(html))),
                                          start, Len(html)),
        segmentNext |-> NoSegment]
  ELSE [segment |-> NoSegment, segmentNext |-> NoSegment]

\* the text segment that ends where segmentNext starts
textBefore(html, start, segmentNext) ==
  [segment |-> HTMLParserTextSegment(strip(Slice(html, start, segmentNext.start)),
                                     start, segmentNext.start),
   segmentNext |-> segmentNext]

\* the scan of _readText from `position` on, for the text that starts at `start`:
\* [segment: the text segment, None or raised; segmentNext: the value cached]
RECURSIVE readTextLoop(_, _, _, _)
readTextLoop(html, strict, start, position) ==
  LET tagged(at, tag) ==
        IF tag.kind = "IndexError"
        THEN [segment |-> RaisedSegment, segmentNext |-> NoSegment]
        ELSE IF tag.kind # "None" THEN textBefore(html, start, tag)
        ELSE readTextLoop(html, strict, start, at + 1)
      commented(at, comment) ==
        IF comment.kind # "None" THEN textBefore(html, start, comment)
        ELSE tagged(at, readTag(html, strict, at))
      found(at) ==
        IF at < 0 THEN textToEnd(html, strict, start)
        ELSE commented(at, readComment(html, at))
  IN found(find(html, <<"<">>, position))

readText(html, strict, position) == readTextLoop(html, strict, position, position)

readSpecialContextTagEnd(html, strict, position, contextTag) ==
  LET check(segment) ==
        IF segment.kind = "IndexError" THEN segment
        ELSE IF segment.kind # "None" /\ ~segment.open /\ segment.close
                /\ segment.name = contextTag
             THEN segment
        ELSE NoSegment
  IN check(readTag(html, strict, position))

RECURSIVE readSpecialContextTextLoop(_, _, _, _, _)
readSpecialContextTextLoop(html, strict, start, position, contextTag) ==
  LET tagged(at, tag) ==
        IF tag.kind = "IndexError"
        THEN [segment |-> RaisedSegment, segmentNext |-> NoSegment]
        ELSE IF tag.kind # "None" THEN textBefore(html, start, tag)
        ELSE readSpecialContextTextLoop(html, strict, start, at + 1, contextTag)
      found(at) ==
        IF at < 0 THEN textToEnd(html, strict, start)
        ELSE tagged(at, readSpecialContextTagEnd(html, strict, at, contextTag))
  IN found(find(html, <<"<">>, position))

readSpecialContextText(html, strict, position, contextTag) ==
  readSpecialContextTextLoop(html, strict, position, position, contextTag)

(***************************************************************************)
(* HTMLParser.next.  The parser is [position, segmentCurrent, segmentNext];*)
(* the result is [segment: the segment returned or None, exc: the          *)
(* exception raised or "", parser: the parser after the call].             *)
(***************************************************************************)

NewParser == [position |-> 0, segmentCurrent |-> NoSegment, segmentNext |-> NoSegment]

\* line 819: the previous segment opened a raw-text element
inSpecialContext(segmentCurrent) ==
  /\ segmentCurrent.kind = "element"
  /\ ~segmentCurrent.close
  /\ segmentCurrent.name \in contextSwitchTags

\* lines 830-834
nextReturn(self, segment, segmentNext) ==
  [segment |-> segment, exc |-> "",
   parser |-> [position |-> segment.end, segmentCurrent |-> segment,
               segmentNext |-> segmentNext]]

nextNone(self, position) ==
  [segment |-> NoSegment, exc |-> "", parser |-> [self EXCEPT !.position = position]]

nextRaise(self, position, exception) ==
  [segment |-> NoSegment, exc |-> exception, parser |-> [self EXCEPT !.position = position]]

\* lines 819-821
nextSpecialContext(html, strict, self, position) ==
  LET texted(t) ==
        IF t.segment.kind = "IndexError" THEN nextRaise(self, position, "IndexError")
        ELSE IF t.segment.kind = "None" THEN nextNone(self, position)
        ELSE nextReturn(self, t.segment, t.segmentNext)
      ended(contextTag, tagEnd) ==
        IF tagEnd.kind = "IndexError" THEN nextRaise(self, position, "IndexError")
        ELSE IF tagEnd.kind # "None" THEN nextReturn(self, tagEnd, NoSegment)
        ELSE texted(readSpecialContextText(html, strict, position, contextTag))
      context(contextTag) ==
        ended(contextTag, readSpecialContextTagEnd(html, strict, position, contextTag))
  IN context(self.segmentCurrent.name)

\* lines 823-828
nextUncached(html, strict, self, position) ==
  LET texted(t) ==
        IF t.segment.kind = "IndexError" THEN nextRaise(self, position, "IndexError")
        ELSE IF t.segment.kind = "None"
             THEN nextRaise(self, position,
                            "Could not read a node, text node or comment")
        ELSE nextReturn(self, t.segment, t.segmentNext)
      tagged(tag) ==
        IF tag.kind = "IndexError" THEN nextRaise(self, position, "IndexError")
        ELSE IF tag.kind # "None" THEN nextReturn(self, tag, NoSegment)
        ELSE texted(readText(html, strict, position))
      commented(comment) ==
        IF comment.kind # "None" THEN nextReturn(self, comment, NoSegment)
        ELSE tagged(readTag(html, strict, position))
  IN commented(readComment(html, position))

\* a next() that returns the cached segment and keeps it in the cache
nextKeepingCache(html, strict, self) ==
  LET at(position) ==
        IF position = Len(html) THEN nextNone(self, position)
        ELSE IF self.segmentNext.kind # "None"
             THEN nextReturn(self, self.segmentNext, self.segmentNext)
        ELSE IF inSpecialContext(self.segmentCurrent)
             THEN nextSpecialContext(html, strict, self, position)
        ELSE nextUncached(html, strict, self, position)
  IN at(readWhitespace(html, self.position))

next(html, strict, self) ==
  LET at(position) ==
        IF position = Len(html) THEN nextNone(self, position)
        ELSE IF self.segmentNext.kind # "None"
             THEN nextReturn(self, self.segmentNext, NoSegment)
        ELSE IF inSpecialContext(self.segmentCurrent)
             THEN nextSpecialContext(html, strict, self, position)
        ELSE nextUncached(html, strict, self, position)
  IN at(readWhitespace(html, self.position))

(***************************************************************************)
(* Nodes.  A node is [kind, parent, children, attributes, name, text];     *)
(* parent is the index of the parent node in `nodes`, 0 for None; children *)
(* lists node indices; text holds HTMLTextNode.text or                     *)
(* HTMLCommentNode.comment.                                                *)
(***************************************************************************)

HTMLElementNode(parent, attributes, name) ==
  [kind |-> "element", parent |-> parent, children |-> <<>>,
   attributes |-> attributes, name |-> name, text |-> <<>>]

HTMLTextNode(parent, text) ==
  [kind |-> "text", parent |-> parent, children |-> <<>>,
   attributes |-> <<>>, name |-> <<>>, text |-> text]

HTMLCommentNode(parent, comment) ==
  [kind |-> "comment", parent |-> parent, children |-> <<>>,
   attributes |-> <<>>, name |-> <<>>, text |-> comment]

createNode(segment, parent) ==
  IF segment.kind = "element"
  THEN HTMLElementNode(parent, segment.attributes, segment.name)
  ELSE IF segment.kind = "text" THEN HTMLTextNode(parent, segment.text)
  ELSE HTMLCommentNode(parent, segment.text)

(***************************************************************************)
(* The construction of one HTMLDocument as a record st of the state:       *)
(* every step of the builder is a function from st to the next st, so that *)
(* a whole construction is also a value (construct, below).                *)
(*   closure, a history field, says of every node how its element ended:   *)
(*   "none" (no _loadChildren call for it), "open" (the call is running),  *)
(*   "closed" (by a close tag of its own name) or "implicit".              *)
(*   unresolved, a history field, is the last close segment that did not   *)
(*   match the innermost element, with the stack length that closing the   *)
(*   nearest open ancestor of that name leaves (0 when there is none).     *)
(***************************************************************************)

Frame(fn, parent, segment) == [fn |-> fn, parent |-> parent, segment |-> segment]

NoUnresolved == [segment |-> NoSegment, target |-> 0]

HTMLDocument(html, strict, comments) ==
  [text |-> html, strict |-> strict, comments |-> comments, rootList |-> <<>>,
   doctype |-> 0, html |-> 0, head |-> 0, body |-> 0]

\* the state in which HTMLDocument.__init__ calls _load
Constructing(html, strict, comments) ==
  [document |-> HTMLDocument(html, strict, comments),
   parser |-> NewParser,
   nodes |-> <<>>,
   stack |-> <<Frame("_load", 0, NoSegment)>>,
   pc |-> "loop",
   response |-> NoSegment,
   exc |-> "",
   unresolved |-> NoUnresolved,
   closure |-> <<>>]

topFrame(st) == st.stack[Len(st.stack)]

\* line 112, line 153: the element takes children
takesChildrenUnlessClosed(segment) == ~segment.close

takesChildren(segment) == ~segment.close /\ segment.name \notin alwaysSelfClosing

\* a new node appended to parent.children whose own parent field is not set
appendNodeOrphan(st, segment, parent) ==
  LET id == Len(st.nodes) + 1
      created == Append(st.nodes, createNode(segment, 0))
  IN [st EXCEPT
        !.nodes = IF parent = 0 THEN created
                  ELSE [created EXCEPT ![parent].children = Append(@, id)],
        !.document.rootList = IF parent = 0 THEN Append(@, id) ELSE @,
        !.closure = Append(@, IF segment.kind = "element" /\ takesChildren(segment)
                              THEN "open" ELSE "none")]

\* a new node created from the segment and appended to parent.children
\* (parent > 0) or to the root list (parent = 0)
appendNode(st, segment, parent) ==
  LET id == Len(st.nodes) + 1
      created == Append(st.nodes, createNode(segment, parent))
  IN [st EXCEPT
        !.nodes = IF parent = 0 THEN created
                  ELSE [created EXCEPT ![parent].children = Append(@, id)],
        !.document.rootList = IF parent = 0 THEN Append(@, id) ELSE @,
        !.closure = Append(@, IF segment.kind = "element" /\ takesChildren(segment)
                              THEN "open" ELSE "none")]

\* the running frame keeps the segment it has just read in its local `segment`
withSegment(st, segment) ==
  [st EXCEPT !.stack[Len(st.stack)].segment = segment, !.unresolved = NoUnresolved]

raise(st, exception) == [st EXCEPT !.pc = "raised", !.exc = exception]

\* `return value` of the running _loadChildren call; how: "closed" or "implicit"
return(st, value, how) ==
  [st EXCEPT !.stack = SubSeq(@, 1, Len(@) - 1),
             !.response = value,
             !.pc = "return",
             !.closure[topFrame(st).parent] = how]

\* lines 108-113, 149-154: an open element segment
openElement(st, segment, parent) ==
  LET appended == appendNode(withSegment(st, segment), segment, parent) IN
  IF takesChildren(segment)
  THEN [appended EXCEPT
          !.stack = Append(@, Frame("_loadChildren", Len(st.nodes) + 1, NoSegment))]
  ELSE appended

\* a builder that reads a text without making a node of it
textOrCommentSkipped(st, segment, parent) ==
  IF segment.kind = "text" THEN withSegment(st, segment)
  ELSE IF segment.kind = "comment" /\ st.document.comments
  THEN appendNode(withSegment(st, segment), segment, parent)
  ELSE raise(st, "Unknown node type.")

\* lines 123-128, 181-186: a text or comment segment
textOrComment(st, segment, parent) ==
  IF segment.kind = "text" \/ (segment.kind = "comment" /\ st.document.comments)
  THEN appendNode(withSegment(st, segment), segment, parent)
  ELSE raise(st, "Unknown node type.")

DoctypeTag == <<"!", "d", "o", "c", "t", "y", "p", "e">>

HtmlTag == <<"h", "t", "m", "l">>

HeadTag == <<"h", "e", "a", "d">>

BodyTag == <<"b", "o", "d", "y">>

\* a _linkNodes that links the named node wherever it stands, in strict mode too
linkAnywhere(st, list, name, indices, before) ==
  LET hits == {i \in DOMAIN list :
                 st.nodes[list[i]].kind = "element" /\ st.nodes[list[i]].name = name}
  IN IF hits = {} THEN before
     ELSE list[CHOOSE i \in hits : \A j \in hits : j <= i]

\* one loop of _linkNodes: the last node of the list named `name` at an index the
\* mode allows, or `before` when there is none
link(st, list, name, indices, before) ==
  LET hits == {i \in DOMAIN list :
                 /\ st.nodes[list[i]].kind = "element"
                 /\ st.nodes[list[i]].name = name
                 /\ (i - 1 \in indices \/ ~st.document.strict)}
  IN IF hits = {} THEN before
     ELSE list[CHOOSE i \in hits : \A j \in hits : j <= i]

linkNodes(st) ==
  LET doc == st.document
      children(html) ==
        IF html # 0
        THEN [doc EXCEPT
                !.html = html,
                !.head = link(st, st.nodes[html].children, HeadTag, {0}, doc.head),
                !.body = link(st, st.nodes[html].children, BodyTag, {0, 1}, doc.body)]
        ELSE doc
      roots(doctype, html) == [children(html) EXCEPT !.doctype = doctype]
  IN [st EXCEPT !.document = roots(link(st, doc.rootList, DoctypeTag, {0}, doc.doctype),
                                   link(st, doc.rootList, HtmlTag, {0, 1}, doc.html))]

(***************************************************************************)
(* HTMLDocument._load: one iteration of the root-level loop, for the       *)
(* result r of parser.next()                                               *)
(***************************************************************************)

\* a _load that ignores the close segment in strict mode too
loadCloseLenient(st, segment) == withSegment(st, segment)

\* lines 119-120: a close segment at the root level
loadClose(st, segment) ==
  IF st.document.strict
  THEN raise(st, "A closing tag was found at the root level of the document")
  ELSE withSegment(st, segment)

\* lines 130-132: the loop is over
loadEnd(st) == [linkNodes(st) EXCEPT !.pc = "done"]

loadSegment(st, r) ==
  IF r.exc # "" THEN raise(st, r.exc)
  ELSE IF r.segment.kind = "None" THEN loadEnd(st)
  ELSE IF r.segment.kind = "element"
  THEN IF r.segment.open THEN openElement(st, r.segment, 0)
       ELSE loadClose(st, r.segment)
  ELSE textOrComment(st, r.segment, 0)

\* lines 113-117: the _loadChildren call has returned into _load
loadResponse(st) ==
  IF st.response.kind # "None" /\ st.document.strict
  THEN raise(st, "A close tag was found that has no matching open")
  ELSE [st EXCEPT !.pc = "loop"]

(***************************************************************************)
(* HTMLDocument._loadChildren: one iteration of the loop of the innermost  *)
(* call, and the return of a nested call into it                           *)
(***************************************************************************)

\* history: the stack length that closing the nearest open ancestor named like
\* the close segment leaves, 0 when no open ancestor has that name
recoveryTarget(st, segment) ==
  LET ancestors == {k \in 2..(Len(st.stack) - 1) :
                      st.nodes[st.stack[k].parent].name = segment.name}
  IN IF ancestors = {} THEN 0
     ELSE (CHOOSE k \in ancestors : \A j \in ancestors : j <= k) - 1

\* a _loadChildren that skips a close segment of another name and reads on
loadChildrenCloseSkipping(st, segment, parent) ==
  IF segment.name = st.nodes[parent].name
  THEN [withSegment(st, segment) EXCEPT
          !.stack = SubSeq(@, 1, Len(@) - 1), !.response = NoSegment,
          !.pc = "return", !.closure[parent] = "closed"]
  ELSE withSegment(st, segment)

\* lines 167-174: a close segment inside parent
loadChildrenClose(st, segment, parent) ==
  IF segment.name = st.nodes[parent].name
  THEN return(withSegment(st, segment), NoSegment, "closed")
  ELSE [return(st, segment, "implicit") EXCEPT
          !.unresolved = [segment |-> segment, target |-> recoveryTarget(st, segment)]]

\* a _loadChildren that asks for the next segment again at the end of the input
loadChildrenEndAgain(st) ==
  IF st.document.strict
  THEN raise(st, "HTML ended before all tags were closed.")
  ELSE st

\* lines 188-192: the loop of _loadChildren is over
loadChildrenEnd(st) ==
  IF st.document.strict
  THEN raise(st, "HTML ended before all tags were closed.")
  ELSE return([st EXCEPT !.unresolved = NoUnresolved], NoSegment, "implicit")

loadChildrenSegment(st, r) ==
  IF r.exc # "" THEN raise(st, r.exc)
  ELSE IF r.segment.kind = "None" THEN loadChildrenEnd(st)
  ELSE IF r.segment.kind = "element"
  THEN IF r.segment.open THEN openElement(st, r.segment, topFrame(st).parent)
       ELSE loadChildrenClose(st, r.segment, topFrame(st).parent)
  ELSE textOrComment(st, r.segment, topFrame(st).parent)

\* lines 156-164: the nested _loadChildren call has returned into the call for
\* topFrame(st).parent, whose local `segment` is the open segment of the child
loadChildrenResponse(st) ==
  IF st.response.kind # "None"
  THEN IF topFrame(st).segment.name = st.nodes[topFrame(st).parent].name
       THEN return(st, NoSegment,
                   IF st.unresolved.segment.name = st.nodes[topFrame(st).parent].name
                   THEN "closed" ELSE "implicit")
       ELSE return(st, topFrame(st).segment, "implicit")
  ELSE [st EXCEPT !.pc = "loop"]

\* line 105: parser.next() and the body of the loop of _load
loadNext(st) ==
  LET called(r) == loadSegment([st EXCEPT !.parser = r.parser], r)
  IN called(next(st.document.text, st.document.strict, st.parser))

\* line 145: parser.next() and the body of the loop of _loadChildren
loadChildrenNext(st) ==
  LET called(r) == loadChildrenSegment([st EXCEPT !.parser = r.parser], r)
  IN called(next(st.document.text, st.document.strict, st.parser))

\* one step of the construction
step(st) ==
  IF st.pc = "loop"
  THEN IF topFrame(st).fn = "_load" THEN loadNext(st) ELSE loadChildrenNext(st)
  ELSE IF topFrame(st).fn = "_load" THEN loadResponse(st)
  ELSE loadChildrenResponse(st)

\* HTMLDocument(html, strict, comments): the state the construction ends in
RECURSIVE run(_)
run(st) == IF st.pc \in {"done", "raised"} THEN st ELSE run(step(st))

construct(html, strict, comments) == run(Constructing(html, strict, comments))

(***************************************************************************)
(* The state machine: the variables are the fields of st                   *)
(***************************************************************************)

\* no call of search is under way
NoSearch ==
  [pc |-> "idle", method |-> "", filter |-> [by |-> "", name |-> <<>>, value |-> <<>>],
   start |-> 0, maxDepth |-> None, maxResults |-> None,
   frames |-> <<>>, node |-> 0, depthRemaining |-> None,
   returned |-> TRUE, results |-> <<>>, visited |-> <<>>]

\* no call has returned
NoResult == [method |-> "", none |-> FALSE, value |-> <<>>]

state ==
  [document |-> document, parser |-> parser, nodes |-> nodes, stack |-> stack,
   pc |-> pc, response |-> response, exc |-> exc, unresolved |-> unresolved,
   closure |-> closure]

become(st) ==
  /\ document' = st.document
  /\ parser' = st.parser
  /\ nodes' = st.nodes
  /\ stack' = st.stack
  /\ pc' = st.pc
  /\ response' = st.response
  /\ exc' = st.exc
  /\ unresolved' = st.unresolved
  /\ closure' = st.closure
  /\ UNCHANGED <<searching, returnValue>>

top == stack[Len(stack)]

\* an iteration of the loop of _load (lines 105-132)
load ==
  /\ pc = "loop"
  /\ top.fn = "_load"
  /\ become(loadNext(state))

\* an iteration of the loop of _loadChildren (lines 145-192)
loadChildren ==
  /\ pc = "loop"
  /\ top.fn = "_loadChildren"
  /\ become(loadChildrenNext(state))

\* a nested _loadChildren call returns into _loadChildren (lines 154-164)
returnToLoadChildren ==
  /\ pc = "return"
  /\ top.fn = "_loadChildren"
  /\ become(loadChildrenResponse(state))

\* the _loadChildren call returns into _load (lines 113-117)
returnToLoad ==
  /\ pc = "return"
  /\ top.fn = "_load"
  /\ become(loadResponse(state))

(***************************************************************************)
(* The documents constructed: HTMLDocument(html, strict, comments) for     *)
(* every html that concatenates at most MaxPieces of the pieces.           *)
(***************************************************************************)

MaxPieces == 4

Pieces ==
  { <<"<", "a", ">">>, <<"<", "/", "a", ">">>,
    <<"<", "b", ">">>, <<"<", "/", "b", ">">>,
    <<"x">>, <<"<">>, <<" ">>,
    <<"<", "!", "-", "-", "c", "-", "-", ">">>,
    <<"<", "b", "r", ">">> }

RECURSIVE Concatenations(_, _)
Concatenations(pieces, n) ==
  IF n = 0 THEN {<<>>}
  ELSE LET shorter == Concatenations(pieces, n - 1) IN
       shorter \cup {h \o p : h \in shorter, p \in pieces}

InitWith(inputs, stricts, commentss) ==
  \E h \in inputs, s \in stricts, c \in commentss :
    /\ document = HTMLDocument(h, s, c)
    /\ parser = NewParser
    /\ nodes = <<>>
    /\ stack = <<Frame("_load", 0, NoSegment)>>
    /\ pc = "loop"
    /\ response = NoSegment
    /\ exc = ""
    /\ unresolved = NoUnresolved
    /\ closure = <<>>
    /\ searching = NoSearch
    /\ returnValue = NoResult

Init == InitWith(Concatenations(Pieces, MaxPieces), BOOLEAN, BOOLEAN)

Next ==
  \/ load
  \/ loadChildren
  \/ returnToLoadChildren
  \/ returnToLoad

Spec == Init /\ [][Next]_vars

(***************************************************************************)
(* Documents with raw-text elements: the pieces hold a script element and  *)
(* what may stand inside it.                                               *)
(***************************************************************************)

MaxRawPieces == 4

RawPieces ==
  { <<"<", "s", "c", "r", "i", "p", "t", ">">>,
    <<"<", "/", "s", "c", "r", "i", "p", "t", ">">>,
    <<"x">>, <<" ">>,
    <<"<", "b", ">">>,
    <<"<", "b", " ", "c", "=", "\"">>, <<"\"">>,
    <<"<", "!", "-", "-", "c", "-", "-", ">">> }

InitRaw == InitWith(Concatenations(RawPieces, MaxRawPieces), BOOLEAN, {TRUE})

SpecRaw == InitRaw /\ [][Next]_vars

(***************************************************************************)
(* Documents with attributes: the pieces make open tags with a bare        *)
(* attribute and a quoted value that escapes its quote.                    *)
(***************************************************************************)

MaxAttrPieces == 5

AttrPieces ==
  { <<"<", "i", "n", "p", "u", "t">>,
    <<" ", "d", "i", "s", "a", "b", "l", "e", "d">>,
    <<" ", "v", "a", "l", "u", "e", "=">>,
    <<"'", "i", "t", "\\", "'", "s", "'">>,
    <<">">>,
    <<"<", "a">>,
    <<"<", "/", "a", ">">> }

InitAttr == InitWith(Concatenations(AttrPieces, MaxAttrPieces), BOOLEAN, {FALSE})

SpecAttr == InitAttr /\ [][Next]_vars

(***************************************************************************)
(* Tags with unquoted attribute names of all kinds of characters.          *)
(***************************************************************************)

MaxNamePieces == 4

NamePieces ==
  { <<"<", "a">>, <<" ", "b">>, <<"$">>, <<"-">>, <<"=", "1">>, <<">">>,
    <<"<", "/", "a", ">">> }

InitName == InitWith(Concatenations(NamePieces, MaxNamePieces), BOOLEAN, {FALSE})

SpecName == InitName /\ [][Next]_vars

(***************************************************************************)
(* Documents with self-closing tags and always-self-closing elements.      *)
(***************************************************************************)

MaxVoidPieces == 4

VoidPieces ==
  { <<"<", "a", ">">>, <<"<", "/", "a", ">">>, <<"<", "a", "/", ">">>,
    <<"<", "b", "r", ">">>, <<"<", "i", "m", "g", " ", "/", ">">>, <<"x">> }

InitVoid == InitWith(Concatenations(VoidPieces, MaxVoidPieces), BOOLEAN, {FALSE})

SpecVoid == InitVoid /\ [][Next]_vars

\* the interpreter goes on with a construction that has not returned or raised:
\* weak fairness of Next, its enabling condition written out as the condition
\* of the loops of _load and _loadChildren (pc is neither "done" nor "raised")
SpecVoidFair == SpecVoid /\ ([]<>(pc \in {"done", "raised"}) \/ []<><<Next>>_vars)

(***************************************************************************)
(* Documents with the elements the shortcuts link.                         *)
(***************************************************************************)

MaxLinkPieces == 5

LinkPieces ==
  { <<"<", "!", "D", "O", "C", "T", "Y", "P", "E", " ", "h", "t", "m", "l", ">">>,
    <<"<", "h", "t", "m", "l", ">">>, <<"<", "/", "h", "t", "m", "l", ">">>,
    <<"<", "h", "e", "a", "d", "/", ">">>, <<"<", "b", "o", "d", "y", "/", ">">>,
    <<"x">> }

InitLink == InitWith(Concatenations(LinkPieces, MaxLinkPieces), BOOLEAN, {FALSE})

SpecLink == InitLink /\ [][Next]_vars

(***************************************************************************)
(* HTMLElementNode.search and the lookups made of it, on a constructed     *)
(* document.  A filter is the closure one of the lookups defines: by names *)
(* the lookup, name and value are what it has captured.                    *)
(***************************************************************************)

\* attributes[name]
getItem(attributes, name) ==
  attributes[CHOOSE i \in DOMAIN attributes : attributes[i][1] = name][2]

IdName == <<"i", "d">>

\* lines 453-454: the filter of getElementById
idFilter(id) == [by |-> "id", name |-> IdName, value |-> id]

\* lines 528-529: the filter of getElementsByTagName
tagNameFilter(tagName) == [by |-> "tagName", name |-> <<>>, value |-> tagName]

\* lines 489-490: the filter of getElementsByClassName
classNameFilter(className) == [by |-> "className", name |-> <<>>, value |-> className]

\* str.split(sep), sep one character: every occurrence of sep separates, so
\* that two separators in a row, or one at an end, give an empty string
RECURSIVE split(_, _)
split(text, sep) ==
  IF \E i \in DOMAIN text : text[i] = sep
  THEN LET i == CHOOSE i \in DOMAIN text :
                  text[i] = sep /\ \A j \in 1..(i - 1) : text[j] # sep
       IN <<SubSeq(text, 1, i - 1)>> \o split(SubSeq(text, i + 1, Len(text)), sep)
  ELSE <<text>>

ClassName == <<"c", "l", "a", "s", "s">>

\* lines 543-547: node.hasClass(className)
hasClass(id, className) ==
  IF hasKey(nodes[id].attributes, ClassName)
  THEN LET classList == split(getItem(nodes[id].attributes, ClassName), " ")
       IN className \in Range(classList)
  ELSE FALSE

\* filter(node) for the node at index id
filter(f, id) ==
  /\ nodes[id].kind = "element"
  /\ CASE f.by = "id" ->
            /\ hasKey(nodes[id].attributes, f.name)
            /\ getItem(nodes[id].attributes, f.name) = f.value
       [] f.by = "className" -> hasClass(id, f.value)
       [] OTHER -> nodes[id].name = f.value

\* a post-filter search: the limit on the results does not stop the traversal
searchRecursiveFilterUnlimited(s) ==
  IF filter(s.filter, s.node)
     /\ (s.maxResults = None \/ Len(s.results) < s.maxResults)
  THEN [s EXCEPT !.results = Append(@, s.node), !.visited = Append(@, s.node),
                 !.pc = "descend"]
  ELSE [s EXCEPT !.visited = Append(@, s.node), !.pc = "descend"]

\* lines 575-578: searchRecursive tests its node
searchRecursiveFilter(s) ==
  IF filter(s.filter, s.node)
  THEN IF s.maxResults # None /\ Len(s.results) + 1 >= s.maxResults
       THEN [s EXCEPT !.results = Append(@, s.node), !.visited = Append(@, s.node),
                      !.pc = "return", !.returned = FALSE]
       ELSE [s EXCEPT !.results = Append(@, s.node), !.visited = Append(@, s.node),
                      !.pc = "descend"]
  ELSE [s EXCEPT !.visited = Append(@, s.node), !.pc = "descend"]

\* a search whose maxDepth counts the start node as a generation
searchRecursiveDescendShallow(s) ==
  IF /\ nodes[s.node].kind = "element"
     /\ (s.depthRemaining = None \/ s.depthRemaining - 1 > 0)
  THEN [s EXCEPT !.frames = Append(@, [node |-> s.node, index |-> 1,
                                       depthRemaining |->
                                         IF s.depthRemaining = None THEN None
                                         ELSE s.depthRemaining - 1]),
                 !.pc = "loop"]
  ELSE [s EXCEPT !.pc = "return", !.returned = TRUE]

\* line 580: searchRecursive goes on to the children of its node, or returns True
\* (line 585)
searchRecursiveDescend(s) ==
  IF /\ nodes[s.node].kind = "element"
     /\ (s.depthRemaining = None \/ s.depthRemaining - 1 >= 0)
  THEN [s EXCEPT !.frames = Append(@, [node |-> s.node, index |-> 1,
                                       depthRemaining |->
                                         IF s.depthRemaining = None THEN None
                                         ELSE s.depthRemaining - 1]),
                 !.pc = "loop"]
  ELSE [s EXCEPT !.pc = "return", !.returned = TRUE]

\* lines 581-585: the loop over node.children of the innermost call: it calls
\* searchRecursive on the next child, or returns True after the last
searchRecursiveLoop(s) ==
  LET frame == s.frames[Len(s.frames)] IN
  IF frame.index <= Len(nodes[frame.node].children)
  THEN [s EXCEPT !.frames[Len(s.frames)].index = @ + 1,
                 !.node = nodes[frame.node].children[frame.index],
                 !.depthRemaining = frame.depthRemaining,
                 !.pc = "call"]
  ELSE [s EXCEPT !.frames = SubSeq(@, 1, Len(@) - 1),
                 !.pc = "return", !.returned = TRUE]

\* lines 575-585: a call of searchRecursive, up to the call it makes on a child
\* or to its return
searchRecursiveCall(s) ==
  LET filtered(t) ==
        IF t.pc = "return" THEN t
        ELSE LET descended(u) == IF u.pc = "loop" THEN searchRecursiveLoop(u) ELSE u
             IN descended(searchRecursiveDescend(t))
  IN filtered(searchRecursiveFilter(s))

\* lines 582-583: a call on a child has returned into the loop
searchRecursiveReturned(s) ==
  IF ~s.returned
  THEN [s EXCEPT !.frames = SubSeq(@, 1, Len(@) - 1)]
  ELSE searchRecursiveLoop(s)

\* lines 587-590: self.search(filter, maxDepth, maxResults) on the node start
searchCall(method, start, f, maxDepth, maxResults) ==
  [NoSearch EXCEPT !.pc = "call", !.method = method, !.filter = f,
                   !.start = start, !.maxDepth = maxDepth,
                   !.maxResults = maxResults, !.node = start,
                   !.depthRemaining = maxDepth]

\* the elements of the document: search is a method of HTMLElementNode
Elements == {id \in DOMAIN nodes : nodes[id].kind = "element"}

MaxDepth == 2

MaxResults == 2

FilterValues == {<<"i">>, <<"a">>}

Filters == {idFilter(v) : v \in FilterValues} \cup {tagNameFilter(v) : v \in FilterValues}

\* node.search(filter, maxDepth, maxResults) is called
search ==
  /\ pc = "done"
  /\ searching.pc = "idle"
  /\ \E start \in Elements, f \in Filters, maxDepth \in {None} \cup 0..MaxDepth,
        maxResults \in {None} \cup 0..MaxResults :
       searching' = searchCall("search", start, f, maxDepth, maxResults)
  /\ UNCHANGED <<document, parser, nodes, stack, pc, response, exc, unresolved,
                 closure, returnValue>>

\* node.getElementById(id) is called (line 456)
getElementById ==
  /\ pc = "done"
  /\ searching.pc = "idle"
  /\ \E start \in Elements, id \in FilterValues :
       searching' = searchCall("getElementById", start, idFilter(id), None, 1)
  /\ UNCHANGED <<document, parser, nodes, stack, pc, response, exc, unresolved,
                 closure, returnValue>>

\* node.getElementsByTagName(tagName) is called (line 531)
getElementsByTagName ==
  /\ pc = "done"
  /\ searching.pc = "idle"
  /\ \E start \in Elements, tagName \in FilterValues :
       searching' = searchCall("getElementsByTagName", start, tagNameFilter(tagName),
                               None, None)
  /\ UNCHANGED <<document, parser, nodes, stack, pc, response, exc, unresolved,
                 closure, returnValue>>

\* searchRecursive is entered (lines 575-585)
searchRecursive ==
  /\ searching.pc = "call"
  /\ searching' = searchRecursiveCall(searching)
  /\ UNCHANGED <<document, parser, nodes, stack, pc, response, exc, unresolved,
                 closure, returnValue>>

\* a call of searchRecursive returns into the loop of its caller (lines 581-585)
searchRecursiveReturn ==
  /\ searching.pc = "return"
  /\ searching.frames # <<>>
  /\ searching' = searchRecursiveReturned(searching)
  /\ UNCHANGED <<document, parser, nodes, stack, pc, response, exc, unresolved,
                 closure, returnValue>>

\* the outermost searchRecursive has returned: search returns results (line 590),
\* getElementById its first or None (lines 457-460)
searchReturn ==
  /\ searching.pc = "return"
  /\ searching.frames = <<>>
  /\ searching' = [searching EXCEPT !.pc = "returned"]
  /\ returnValue' = [method |-> searching.method,
                none |-> searching.method = "getElementById"
                         /\ Len(searching.results) = 0,
                value |-> IF searching.method = "getElementById"
                          THEN IF Len(searching.results) > 0
                               THEN searching.results[1] ELSE None
                          ELSE searching.results]
  /\ UNCHANGED <<document, parser, nodes, stack, pc, response, exc, unresolved,
                 closure>>

MaxSearchPieces == 4

SearchPieces ==
  { <<"<", "a", ">">>, <<"<", "/", "a", ">">>,
    <<"<", "b", " ", "i", "d", "=", "i", ">">>, <<"<", "/", "b", ">">>,
    <<"x">> }

\* the documents constructed, when the construction has returned
Constructed(inputs, stricts, commentss) ==
  \E h \in inputs, s \in stricts, c \in commentss :
    LET built(st) ==
          /\ st.pc = "done"
          /\ document = st.document
          /\ parser = st.parser
          /\ nodes = st.nodes
          /\ stack = st.stack
          /\ pc = st.pc
          /\ response = st.response
          /\ exc = st.exc
          /\ unresolved = st.unresolved
          /\ closure = st.closure
          /\ searching = NoSearch
          /\ returnValue = NoResult
    IN built(construct(h, s, c))

InitSearch == Constructed(Concatenations(SearchPieces, MaxSearchPieces), {FALSE}, {FALSE})

NextSearch ==
  \/ search
  \/ getElementById
  \/ getElementsByTagName
  \/ searchRecursive
  \/ searchRecursiveReturn
  \/ searchReturn

SpecSearch == InitSearch /\ [][NextSearch]_vars

ClassNames == {<<"x">>, <<"y">>, <<>>, <<"x", " ", "y">>}

\* node.hasClass(className) is called and returns (lines 543-547)
callHasClass ==
  /\ pc = "done"
  /\ searching.pc = "idle"
  /\ \E node \in Elements, className \in ClassNames :
       /\ searching' = [NoSearch EXCEPT !.pc = "returned", !.method = "hasClass",
                                        !.start = node,
                                        !.filter = classNameFilter(className)]
       /\ returnValue' = [method |-> "hasClass", none |-> FALSE,
                          value |-> hasClass(node, className)]
  /\ UNCHANGED <<document, parser, nodes, stack, pc, response, exc, unresolved,
                 closure>>

\* node.getElementsByClassName(className) is called (line 492)
getElementsByClassName ==
  /\ pc = "done"
  /\ searching.pc = "idle"
  /\ \E start \in Elements, className \in ClassNames :
       searching' = searchCall("getElementsByClassName", start,
                               classNameFilter(className), None, None)
  /\ UNCHANGED <<document, parser, nodes, stack, pc, response, exc, unresolved,
                 closure, returnValue>>

MaxClassPieces == 3

ClassPieces ==
  { <<"<", "a", ">">>, <<"<", "/", "a", ">">>,
    <<"<", "a", " ", "c", "l", "a", "s", "s", "=", "\"", "x", " ", "y", "\"", ">">>,
    <<"<", "a", " ", "c", "l", "a", "s", "s", "=", "\"", "x", "\t", "y", "\"", ">">>,
    <<"<", "a", " ", "c", "l", "a", "s", "s", "=", "\"", "x", "\n", "y", "\"", ">">>,
    <<"<", "a", " ", "c", "l", "a", "s", "s", "=", "\"", "x", " ", " ", "y", "\"", ">">>,
    <<"<", "a", " ", "c", "l", "a", "s", "s", "=", "x", ">">> }

InitClass == Constructed(Concatenations(ClassPieces, MaxClassPieces), {FALSE}, {FALSE})

NextClass ==
  \/ callHasClass
  \/ getElementsByClassName
  \/ searchRecursive
  \/ searchRecursiveReturn
  \/ searchReturn

SpecClass == InitClass /\ [][NextClass]_vars

(***************************************************************************)
(* HTMLTable, HTMLTableRow, HTMLTableCell and the tables properties.  A    *)
(* row is [node, cells], a cell [node], a table [node, head, body, foot,   *)
(* rows]; the row objects of head, body and foot are those of rows.        *)
(***************************************************************************)

\* line 744, lines 394-427: the inner html of the element id
RECURSIVE innerHtml(_)
innerHtml(id) ==
  LET RECURSIVE attributesHtml(_)
      attributesHtml(attributes) ==
        IF attributes = <<>> THEN <<>>
        ELSE <<" ">> \o Head(attributes)[1] \o <<"=", "\"">> \o Head(attributes)[2]
             \o <<"\"">> \o attributesHtml(Tail(attributes))
      nodeHtml(child) ==
        IF nodes[child].kind = "text" THEN nodes[child].text
        ELSE IF nodes[child].kind = "comment"
        THEN <<"<", "!", "-", "-", " ">> \o nodes[child].text \o <<" ", "-", "-", ">">>
        ELSE <<"<">> \o nodes[child].name \o attributesHtml(nodes[child].attributes)
             \o (IF Len(nodes[child].children) > 0
                 THEN <<">">> \o innerHtml(child) \o <<"<", "/">> \o nodes[child].name
                      \o <<">">>
                 ELSE <<"/", ">">>)
      RECURSIVE each(_)
      each(ids) == IF ids = <<>> THEN <<>> ELSE nodeHtml(Head(ids)) \o each(Tail(ids))
  IN each(nodes[id].children)

\* lines 715-721: the row of the tr element node
HTMLTableRow(node) ==
  [node |-> node,
   cells |-> LET kept == SelectSeq(nodes[node].children,
                                   LAMBDA child :
                                     /\ nodes[child].kind = "element"
                                     /\ nodes[child].name \in {<<"t", "h">>, <<"t", "d">>})
             IN [i \in DOMAIN kept |-> [node |-> kept[i]]]]

\* a table that sorts every row by the first cell of its first row
tableRowBucketOfFirstRow(node, child) ==
  LET first == nodes[node].children[1] IN
  IF /\ nodes[child].kind = "element" /\ nodes[child].name = <<"t", "r">>
     /\ Len(nodes[child].children) > 0
     /\ Len(nodes[first].children) > 0
     /\ nodes[nodes[first].children[1]].kind = "element"
  THEN IF nodes[nodes[first].children[1]].name = <<"t", "h">> THEN "head"
       ELSE IF nodes[nodes[first].children[1]].name = <<"t", "d">> THEN "body"
       ELSE ""
  ELSE ""

\* lines 643-655: where the child of the table node goes when the first child of
\* the table is a tr: "head", "body" or "" (nowhere)
tableRowBucket(node, child) ==
  IF /\ nodes[child].kind = "element" /\ nodes[child].name = <<"t", "r">>
     /\ Len(nodes[child].children) > 0
     /\ nodes[nodes[child].children[1]].kind = "element"
  THEN IF nodes[nodes[child].children[1]].name = <<"t", "h">> THEN "head"
       ELSE IF nodes[nodes[child].children[1]].name = <<"t", "d">> THEN "body"
       ELSE ""
  ELSE ""

\* lines 626-687: HTMLTable(node)
HTMLTable(node) ==
  LET children == nodes[node].children
      count == Len(children)
      named(position, name) ==
        /\ position < count
        /\ nodes[children[position + 1]].kind = "element"
        /\ nodes[children[position + 1]].name = name
      rowsOf(ids) == [i \in DOMAIN ids |-> HTMLTableRow(ids[i])]
      direct(buckets) ==
        rowsOf(SelectSeq(children, LAMBDA child : tableRowBucket(node, child) \in buckets))
      grandchildren(position, name) ==
        IF named(position, name)
        THEN rowsOf(SelectSeq(nodes[children[position + 1]].children,
                              LAMBDA grandchild :
                                /\ nodes[grandchild].kind = "element"
                                /\ nodes[grandchild].name = <<"t", "r">>))
        ELSE <<>>
      after(position, name) == IF named(position, name) THEN position + 1 ELSE position
      sections(body, foot) ==
        [node |-> node,
         head |-> grandchildren(0, <<"t", "h", "e", "a", "d">>),
         body |-> grandchildren(body, <<"t", "b", "o", "d", "y">>),
         foot |-> grandchildren(foot, <<"t", "f", "o", "o", "t">>),
         rows |-> grandchildren(0, <<"t", "h", "e", "a", "d">>)
                  \o grandchildren(body, <<"t", "b", "o", "d", "y">>)
                  \o grandchildren(foot, <<"t", "f", "o", "o", "t">>)]
      tbodyAt(body) == sections(body, after(body, <<"t", "b", "o", "d", "y">>))
  IN IF named(0, <<"t", "r">>)
     THEN [node |-> node, head |-> direct({"head"}), body |-> direct({"body"}),
           foot |-> <<>>, rows |-> direct({"head", "body"})]
     ELSE tbodyAt(after(0, <<"t", "h", "e", "a", "d">>))

\* lines 587-590 run to the end: the results of search(filter) from start
RECURSIVE searchResults(_)
searchResults(s) ==
  IF s.pc = "return" /\ s.frames = <<>> THEN s.results
  ELSE IF s.pc = "call" THEN searchResults(searchRecursiveCall(s))
  ELSE searchResults(searchRecursiveReturned(s))

\* lines 429-441: node.tables
elementTables(node) ==
  LET found == searchResults(searchCall("getElementsByTagName", node,
                                        tagNameFilter(<<"t", "a", "b", "l", "e">>),
                                        None, None))
  IN [i \in DOMAIN found |-> HTMLTable(found[i])]

\* lines 81-86: document.tables is read
tables ==
  /\ pc = "done"
  /\ returnValue.method = ""
  /\ returnValue' = [method |-> "tables",
                     none |-> document.body = 0,
                     value |-> IF document.body # 0 THEN elementTables(document.body)
                               ELSE <<>>]
  /\ UNCHANGED <<document, parser, nodes, stack, pc, response, exc, unresolved,
                 closure, searching>>

\* lines 429-441: node.tables is read on a table element of the document
nodeTables ==
  /\ pc = "done"
  /\ returnValue.method = ""
  /\ \E node \in {id \in Elements : nodes[id].name = <<"t", "a", "b", "l", "e">>} :
       returnValue' = [method |-> "node.tables", none |-> FALSE,
                       value |-> elementTables(node)]
  /\ UNCHANGED <<document, parser, nodes, stack, pc, response, exc, unresolved,
                 closure, searching>>

MaxTablePieces == 4

TablePieces ==
  { <<"<", "t", "a", "b", "l", "e", ">">>,
    <<"<", "t", "r", ">", "<", "t", "h", ">", "H", "<", "/", "t", "h", ">",
      "<", "/", "t", "r", ">">>,
    <<"<", "t", "r", ">", "<", "t", "d", ">", "D", "<", "/", "t", "d", ">",
      "<", "/", "t", "r", ">">>,
    <<"<", "t", "r", ">", "<", "/", "t", "r", ">">>,
    <<"<", "t", "h", "e", "a", "d", ">", "<", "t", "r", ">", "<", "t", "h", ">", "H",
      "<", "/", "t", "h", ">", "<", "/", "t", "r", ">", "<", "/", "t", "h", "e", "a",
      "d", ">">>,
    <<"<", "t", "b", "o", "d", "y", ">", "<", "t", "r", ">", "<", "t", "d", ">", "D",
      "<", "/", "t", "d", ">", "<", "/", "t", "r", ">", "<", "/", "t", "b", "o", "d",
      "y", ">">>,
    <<"<", "t", "f", "o", "o", "t", ">", "<", "t", "r", ">", "<", "t", "d", ">", "D",
      "<", "/", "t", "d", ">", "<", "/", "t", "r", ">", "<", "/", "t", "f", "o", "o",
      "t", ">">> }

\* `<table><tr><th>H</th></tr><tr><td>D</td></tr></table>`
TableExample ==
  <<"<", "t", "a", "b", "l", "e", ">",
    "<", "t", "r", ">", "<", "t", "h", ">", "H", "<", "/", "t", "h", ">",
    "<", "/", "t", "r", ">",
    "<", "t", "r", ">", "<", "t", "d", ">", "D", "<", "/", "t", "d", ">",
    "<", "/", "t", "r", ">",
    "<", "/", "t", "a", "b", "l", "e", ">">>

\* the documents of the pieces, the same inside `<html><body>`, and the example
InitTable ==
  LET fragments == Concatenations(TablePieces, MaxTablePieces) \cup {TableExample}
      inBody == {<<"<", "h", "t", "m", "l", ">", "<", "b", "o", "d", "y", ">">> \o h :
                   h \in fragments}
  IN Constructed(fragments \cup inBody, {FALSE}, {FALSE})

NextTable ==
  \/ tables
  \/ nodeTables

SpecTable == InitTable /\ [][NextTable]_vars

(***************************************************************************)
(* HTMLDocument.write on a constructed document.                           *)
(***************************************************************************)

\* lines 262-348: writeNode(document, nodeList, pretty, indent, selfClosing,
\* shrinkText, shrinkLimit, depth, first), with tabs of the enclosing write
RECURSIVE writeNode(_, _, _, _, _, _, _, _, _)
writeNode(nodeList, pretty, indent, tabs, selfClosing, shrinkText, shrinkLimit, depth, first) ==
  LET neverSelfClosing == { <<"s", "c", "r", "i", "p", "t">>, <<"s", "t", "y", "l", "e">>,
                            <<"h", "t", "m", "l">>, <<"h", "e", "a", "d">>,
                            <<"b", "o", "d", "y">> }
      doctype == <<"!", "d", "o", "c", "t", "y", "p", "e">>
      rjust(width, fillchar) == [i \in 1..width |-> fillchar]
      prefixOf(d) == IF ~pretty THEN <<>>
                     ELSE IF tabs THEN rjust(d, "\t") ELSE rjust(d * indent, " ")
      tagName(node) == IF node.name = doctype THEN upper(node.name) ELSE node.name
      RECURSIVE attributesOf(_, _)
      attributesOf(node, attributes) ==
        IF attributes = <<>> THEN <<>>
        ELSE (IF node.name = doctype /\ Head(attributes)[2] = <<"t", "r", "u", "e">>
              THEN <<" ">> \o Head(attributes)[1]
              ELSE <<" ">> \o Head(attributes)[1] \o <<"=", "\"">>
                   \o Head(attributes)[2] \o <<"\"">>)
             \o attributesOf(node, Tail(attributes))
      nodeHtml(node) ==
        IF node.kind = "text" THEN node.text
        ELSE <<"<", "!", "-", "-", " ">> \o node.text \o <<" ", "-", "-", ">">>
      element(node, prefix, firstNow) ==
        IF /\ node.name \notin neverSelfClosing
           /\ \/ node.name \in alwaysSelfClosing
              \/ selfClosing /\ Len(node.children) = 0
        THEN <<"<">> \o tagName(node) \o attributesOf(node, node.attributes)
             \o (IF node.name \notin alwaysSelfClosing
                 THEN (IF Len(node.attributes) > 0 THEN <<" ">> ELSE <<>>) \o <<"/">>
                 ELSE <<>>)
             \o <<">">>
        ELSE <<"<">> \o tagName(node) \o attributesOf(node, node.attributes) \o <<">">>
             \o (IF /\ shrinkText
                    /\ Len(node.children) = 1
                    /\ nodes[node.children[1]].kind = "text"
                    /\ Len(nodes[node.children[1]].text) <= shrinkLimit
                 THEN nodes[node.children[1]].text
                 ELSE writeNode(node.children, pretty, indent, tabs, selfClosing,
                                shrinkText, shrinkLimit, depth + 1, firstNow)
                      \o (IF pretty THEN <<"\r", "\n">> \o prefix ELSE <<>>))
             \o <<"<", "/">> \o node.name \o <<">">>
      one(node, firstNow) ==
        (IF pretty /\ ~firstNow THEN <<"\r", "\n">> ELSE <<>>)
        \o prefixOf(depth)
        \o (IF node.kind = "element"
            THEN element(node, prefixOf(depth), firstNow /\ ~pretty)
            ELSE nodeHtml(node))
  IN IF nodeList = <<>> THEN <<>>
     ELSE one(nodes[Head(nodeList)], first)
          \o writeNode(Tail(nodeList), pretty, indent, tabs, selfClosing, shrinkText,
                       shrinkLimit, depth, first /\ ~pretty)

MaxIndent == 2

\* a write whose first node is not the first of the document
writeNotFirst ==
  /\ pc = "done"
  /\ returnValue.method = ""
  /\ \E pretty \in BOOLEAN, indent \in 1..MaxIndent, tabs \in BOOLEAN,
        shrinkText \in BOOLEAN, shrinkLimit \in {0, 20} :
       returnValue' =
         [method |-> "write", none |-> FALSE,
          args |-> [pretty |-> pretty, indent |-> indent, tabs |-> tabs,
                    shrinkText |-> shrinkText, shrinkLimit |-> shrinkLimit],
          value |-> writeNode(document.rootList, pretty, indent, tabs, TRUE,
                              shrinkText, shrinkLimit, 0, FALSE)]
  /\ UNCHANGED <<document, parser, nodes, stack, pc, response, exc, unresolved,
                 closure, searching>>

\* lines 247-350: document.write(pretty, indent, tabs, shrinkText = shrinkText,
\* shrinkLimit = shrinkLimit) is called, selfClosing at its default, and returns
write ==
  /\ pc = "done"
  /\ returnValue.method = ""
  /\ \E pretty \in BOOLEAN, indent \in 1..MaxIndent, tabs \in BOOLEAN,
        shrinkText \in BOOLEAN, shrinkLimit \in {0, 20} :
       returnValue' =
         [method |-> "write", none |-> FALSE,
          args |-> [pretty |-> pretty, indent |-> indent, tabs |-> tabs,
                    shrinkText |-> shrinkText, shrinkLimit |-> shrinkLimit],
          value |-> writeNode(document.rootList, pretty, indent, tabs, TRUE,
                              shrinkText, shrinkLimit, 0, TRUE)]
  /\ UNCHANGED <<document, parser, nodes, stack, pc, response, exc, unresolved,
                 closure, searching>>

MaxWritePieces == 3

WritePieces ==
  { <<"<", "a", ">">>, <<"<", "/", "a", ">">>, <<"x">>, <<"<", "b", "r", ">">>,
    <<"<", "a", " ", "b", "=", "\"", "1", "\"", ">">>,
    <<"<", "a", " ", "b", "=", "'", "\"", "'", ">">>,
    <<"<", "!", "-", "-", "c", "-", "-", ">">> }

InitWrite == Constructed(Concatenations(WritePieces, MaxWritePieces), {FALSE}, BOOLEAN)

SpecWrite == InitWrite /\ [][write]_vars

(***************************************************************************)
(* Views of a construction used by the properties                          *)
(***************************************************************************)

\* the subtree of node id as a value: kind, tag name, attributes, text, children
RECURSIVE tree(_, _)
tree(st, id) ==
  [kind |-> st.nodes[id].kind, name |-> st.nodes[id].name,
   attributes |-> st.nodes[id].attributes, text |-> st.nodes[id].text,
   children |-> [i \in DOMAIN st.nodes[id].children |->
                   tree(st, st.nodes[id].children[i])]]

\* the trees of the root list
trees(st) == [i \in DOMAIN st.document.rootList |-> tree(st, st.document.rootList[i])]

Element(name, children) ==
  [kind |-> "element", name |-> name, attributes |-> <<>>, text |-> <<>>,
   children |-> children]

Text(text) ==
  [kind |-> "text", name |-> <<>>, attributes |-> <<>>, text |-> text,
   children |-> <<>>]

\* the segments next() returns for html, call after call, and the exception that
\* ends them
RECURSIVE tokenize(_, _, _, _)
tokenize(html, strict, self, segments) ==
  LET called(r) ==
        IF r.exc # "" \/ r.segment.kind = "None"
        THEN [segments |-> segments, exc |-> r.exc]
        ELSE tokenize(html, strict, r.parser, Append(segments, r.segment))
  IN called(next(html, strict, self))

\* every open tag of the segments has its close tag, and no tags cross
RECURSIVE balanced(_, _)
balanced(segments, open) ==
  IF segments = <<>> THEN open = <<>>
  ELSE LET segment == Head(segments) IN
       IF segment.kind # "element" \/ (segment.open /\ segment.close)
       THEN balanced(Tail(segments), open)
       ELSE IF segment.open
       THEN balanced(Tail(segments), Append(open, segment.name))
       ELSE /\ open # <<>>
            /\ open[Len(open)] = segment.name
            /\ balanced(Tail(segments), SubSeq(open, 1, Len(open) - 1))

\* html, read leniently, is well formed
WellFormed(html) ==
  LET tokens == tokenize(html, FALSE, NewParser, <<>>) IN
  tokens.exc = "" /\ balanced(tokens.segments, <<>>)

(***************************************************************************)
(* Properties                                                              *)
(***************************************************************************)

\* C1: tag-mismatch recovery in lenient mode.  When a close tag does not match
\* the innermost open element but matches the name of an open ancestor, the
\* nearest such ancestor is the element closed, and the segments that follow are
\* attached to that ancestor's parent: when the loop resumes, the running frame
\* is the one just below the ancestor's frame.
C1_MismatchClosesNearestAncestor ==
  (pc = "loop" /\ ~document.strict /\ unresolved.target > 0)
    => Len(stack) = unresolved.target

\* C2: with comment retention disabled a comment segment is dropped: reading it
\* raises nothing and the tree holds no comment node.
C2_CommentDroppedWhenNotRetained ==
  (~document.comments /\ parser.segmentCurrent.kind = "comment")
    => /\ exc # "Unknown node type."
       /\ \A i \in DOMAIN nodes : nodes[i].kind # "comment"

\* C3: in strict mode the construction fails once a close tag has been read whose
\* name differs from the innermost open element: the returns that follow end in
\* an exception, the loop never resumes.
C3_StrictMismatchRaises ==
  (document.strict /\ unresolved.segment.kind # "None")
    => pc \in {"return", "raised"}

\* C4: a strict construction that succeeds has every element that takes children
\* closed by a close tag of its own name.
C4_StrictSuccessAllClosed ==
  (pc = "done" /\ document.strict)
    => \A i \in DOMAIN nodes : closure[i] \in {"none", "closed"}

\* C5: for well-formed html the strict and the lenient construction both succeed
\* and build identical trees (comments retained, so that dropping a comment is
\* not at stake).
C5_WellFormedStrictLenientAgree ==
  (document.comments /\ WellFormed(document.text))
    => /\ pc # "raised"
       /\ pc = "done"
            => LET other(st) == st.pc = "done" /\ trees(st) = trees(state)
               IN other(construct(document.text, ~document.strict, document.comments))

\* C6: in lenient mode an element still open when its call reads a close tag of
\* another name or the end of the input is implicitly closed and keeps exactly the
\* children it had: the step that closes it pops its call, changes no node, and
\* no later step changes a closed element; a lenient construction that ends has
\* no element left open and raises neither of the two structural errors;
\* `<a><b>x</a>` gives a with single child b with single text child x, and
\* `<a><b></a>` gives a with the childless b as its only child.
C6_LenientImplicitCloseKeepsChildren ==
  /\ [](~document.strict =>
          /\ exc \notin {"HTML ended before all tags were closed.",
                         "A close tag was found that has no matching open"}
          /\ pc = "done" => \A i \in DOMAIN closure : closure[i] # "open"
          /\ (pc = "done" /\ document.text = <<"<", "a", ">", "<", "b", ">", "x",
                                               "<", "/", "a", ">">>)
               => trees(state) = <<Element(<<"a">>, <<Element(<<"b">>, <<Text(<<"x">>)>>)>>)>>
          /\ (pc = "done" /\ document.text = <<"<", "a", ">", "<", "b", ">",
                                               "<", "/", "a", ">">>)
               => trees(state) = <<Element(<<"a">>, <<Element(<<"b">>, <<>>)>>)>>)
  /\ [][LET unmatched(r) ==
              /\ r.exc = ""
              /\ \/ r.segment.kind = "None"
                 \/ /\ r.segment.kind = "element"
                    /\ ~r.segment.open
                    /\ r.segment.name # nodes[top.parent].name
         reads == /\ ~document.strict
                  /\ pc = "loop"
                  /\ top.fn = "_loadChildren"
                  /\ unmatched(next(document.text, document.strict, parser))
     IN /\ reads => /\ closure'[top.parent] = "implicit"
                    /\ stack' = SubSeq(stack, 1, Len(stack) - 1)
                    /\ nodes' = nodes
        /\ \A i \in DOMAIN nodes :
             /\ (closure[i] = "open" /\ closure'[i] # "open") => nodes' = nodes
             /\ closure[i] \in {"closed", "implicit"}
                  => nodes'[i] = nodes[i] /\ closure'[i] = closure[i]]_vars

\* C6 happens: the lenient construction of `<a><b>x</a>` has ended, b implicitly
\* closed with its text child
C6_Witness ==
  /\ ~document.strict
  /\ pc = "done"
  /\ document.text = <<"<", "a", ">", "<", "b", ">", "x", "<", "/", "a", ">">>
  /\ closure[2] = "implicit"
  /\ nodes[2].children = <<3>>

\* the close tag of the raw-text element contextTag stands at q
closesContext(html, strict, q, contextTag) ==
  LET closing(tag) ==
        tag.kind = "element" /\ ~tag.open /\ tag.close /\ tag.name = contextTag
  IN At(html, q) = "<" /\ closing(readTag(html, strict, q))

\* C7: right after an open tag of a raw-text element, when a close tag of that
\* name stands further on, next() returns everything before the first such
\* close tag as one trimmed text segment and keeps the close tag as the segment
\* to return next, or returns the close tag at once when nothing but whitespace
\* precedes it; it raises nothing.
C7_RawTextUpToFirstCloseTag ==
  LET html == document.text
      position == readWhitespace(html, parser.position)
      closes == {q \in position..(Len(html) - 1) :
                   closesContext(html, document.strict, q, parser.segmentCurrent.name)}
      first == CHOOSE q \in closes : \A j \in closes : q <= j
      returned(r, tag) ==
        /\ r.exc = ""
        /\ IF first = position
           THEN r.segment = tag
           ELSE /\ r.segment = HTMLParserTextSegment(strip(Slice(html, position, first)),
                                                     position, first)
                /\ r.parser.segmentNext = tag
  IN (/\ pc = "loop"
      /\ inSpecialContext(parser.segmentCurrent)
      /\ parser.segmentNext.kind = "None"
      /\ closes # {})
       => returned(next(html, document.strict, parser),
                   readTag(html, document.strict, first))

\* C8: a bare attribute name gets the value "true" and an escaped quote is
\* stored resolved: `<input disabled value='it\'s'>` gives the attributes
\* disabled = "true" and value = "it's", and no stored value holds a backslash.
C8_BareAndEscapedAttributes ==
  /\ \A i \in DOMAIN nodes : \A k \in DOMAIN nodes[i].attributes :
       "\\" \notin Range(nodes[i].attributes[k][2])
  /\ (pc = "done" /\ document.text =
         <<"<", "i", "n", "p", "u", "t", " ", "d", "i", "s", "a", "b", "l", "e", "d",
           " ", "v", "a", "l", "u", "e", "=", "'", "i", "t", "\\", "'", "s", "'", ">">>)
       => /\ Len(nodes) = 1
          /\ nodes[1].attributes =
               << <<<<"d", "i", "s", "a", "b", "l", "e", "d">>, TrueValue>>,
                  <<<<"v", "a", "l", "u", "e">>, <<"i", "t", "'", "s">>>> >>

\* a `<` of html that begins neither a comment nor a tag
stray(html, p) ==
  /\ At(html, p) = "<"
  /\ readComment(html, p).kind = "None"
  /\ readTag(html, FALSE, p).kind \in {"None", "IndexError"}

\* C9: in lenient mode the construction does not fail on an input holding a `<`
\* that begins neither a comment nor a tag (comments retained, so that no
\* comment is at stake).
C9_LenientStrayLessThanDoesNotFail ==
  (/\ ~document.strict
   /\ document.comments
   /\ \E p \in 0..(Len(document.text) - 1) : stray(document.text, p))
    => pc # "raised"

\* C10: a close tag read by the loop of _load makes a strict construction fail;
\* a lenient one ignores it: no node is created, the root list, the links and
\* every node stay as they were, and the loop of _load goes on.
C10_CloseTagAtRoot ==
  [][LET closes(r) == r.exc = "" /\ r.segment.kind = "element" /\ ~r.segment.open
         reads == /\ pc = "loop"
                  /\ top.fn = "_load"
                  /\ closes(next(document.text, document.strict, parser))
     IN reads =>
          IF document.strict
          THEN /\ pc' = "raised"
               /\ exc' = "A closing tag was found at the root level of the document"
          ELSE /\ nodes' = nodes
               /\ closure' = closure
               /\ document' = document
               /\ exc' = ""
               /\ pc' = "loop"
               /\ Len(stack') = 1
               /\ stack'[1].fn = "_load"]_vars

\* C10 happens: a lenient construction has ignored a close tag read at the root
\* level after a node was there, and has then ended with a later node
C10_Witness ==
  /\ ~document.strict
  /\ pc = "done"
  /\ document.text = <<"x", "<", "/", "a", ">", "<", "b", "r", ">">>
  /\ Len(document.rootList) = 2

\* the node id and its descendants in depth-first pre-order (document order)
RECURSIVE preOrder(_)
preOrder(id) ==
  LET RECURSIVE each(_)
      each(ids) == IF ids = <<>> THEN <<>> ELSE preOrder(Head(ids)) \o each(Tail(ids))
  IN <<id>> \o each(nodes[id].children)

\* how many generations id is below its ancestor start
RECURSIVE generations(_, _)
generations(id, start) ==
  IF id = start THEN 0 ELSE 1 + generations(nodes[id].parent, start)

\* the nodes a search from start with maxDepth is to test, in the order of the tests
tested(start, maxDepth) ==
  SelectSeq(preOrder(start),
            LAMBDA id : maxDepth = None \/ generations(id, start) <= maxDepth)

\* where in the sequence of nodes the filter holds
matching(f, ids) == {i \in DOMAIN ids : filter(f, ids[i])}

\* C11: search with maxResults = n >= 1 short-circuits: at every moment the nodes
\* the filter has been invoked on are a prefix of the pre-order that does not go
\* beyond the n-th matching node, and when search has returned they are exactly
\* that prefix (the whole pre-order when fewer than n nodes match); with
\* maxResults = 1 the number of invocations is the pre-order position of the
\* first match, and getElementById returns the first match, or None.
C11_SearchShortCircuits ==
  LET P == tested(searching.start, searching.maxDepth)
      M == matching(searching.filter, P)
      n == searching.maxResults
      last == IF Cardinality(M) >= n
              THEN CHOOSE k \in M : Cardinality({j \in M : j <= k}) = n
              ELSE Len(P)
  IN (searching.pc # "idle" /\ n # None /\ n >= 1) =>
       /\ Len(searching.visited) <= last
       /\ searching.visited = SubSeq(P, 1, Len(searching.visited))
       /\ searching.pc = "returned" =>
            /\ Len(searching.visited) = last
            /\ Len(searching.results) <= n
            /\ (n = 1 /\ M # {}) =>
                 /\ \A j \in M : Len(searching.visited) <= j
                 /\ searching.results = <<P[last]>>
            /\ returnValue.method = "getElementById" =>
                 returnValue.value = IF M = {} THEN None ELSE P[last]

\* C11 happens: a search with maxResults = 1 has returned its first match after
\* testing more than one node and leaving nodes of the subtree untested
C11_Witness ==
  /\ searching.pc = "returned"
  /\ searching.maxResults = 1
  /\ Len(searching.results) = 1
  /\ Len(searching.visited) > 1
  /\ Len(searching.visited) < Len(preOrder(searching.start))

\* C12: search without maxResults tests the start node and its descendants at
\* most maxDepth generations below it (all of them without maxDepth), each once
\* and in depth-first pre-order, and returns exactly those of them that satisfy
\* the filter, in that order; maxDepth = 0 tests only the start node, maxDepth = 1
\* the start node and its direct children.
C12_SearchPreOrderWithinDepth ==
  LET P == tested(searching.start, searching.maxDepth)
      start == searching.start
  IN (searching.pc = "returned" /\ searching.maxResults = None) =>
       /\ searching.visited = P
       /\ searching.results = SelectSeq(P, LAMBDA id : filter(searching.filter, id))
       /\ returnValue.value = searching.results
       /\ searching.maxDepth = 0 => searching.visited = <<start>>
       /\ searching.maxDepth = 1 => searching.visited = <<start>> \o nodes[start].children

\* C12 happens: a search with maxDepth = 1 and no maxResults has returned two
\* nodes in a subtree that goes deeper than one generation
C12_Witness ==
  /\ searching.pc = "returned"
  /\ searching.maxResults = None
  /\ searching.maxDepth = 1
  /\ Len(searching.results) = 2
  /\ Len(searching.visited) < Len(preOrder(searching.start))

\* C13: the shortcuts.  doctype is 0 (None) or a `!doctype` element of the root
\* list, html 0 or an `html` element of the root list, head and body 0 or a `head`
\* and a `body` element among the children of html, and both 0 when html is; in
\* strict mode doctype stands at root index 0, html at root index 0 or 1, head at
\* index 0 and body at index 0 or 1 of html's children.  (Indices of the
\* sequences are the Python indices plus one.)
C13_ShortcutsLinked ==
  LET linked(id, list, name, indices) ==
        id # 0 => \E i \in DOMAIN list :
                    /\ list[i] = id
                    /\ nodes[id].kind = "element"
                    /\ nodes[id].name = name
                    /\ document.strict => i - 1 \in indices
  IN /\ linked(document.doctype, document.rootList, DoctypeTag, {0})
     /\ linked(document.html, document.rootList, HtmlTag, {0, 1})
     /\ document.html = 0 => document.head = 0 /\ document.body = 0
     /\ document.html # 0 =>
          /\ linked(document.head, nodes[document.html].children, HeadTag, {0})
          /\ linked(document.body, nodes[document.html].children, BodyTag, {0, 1})

\* C13 happens: a strict construction has ended with the four shortcuts linked
C13_Witness ==
  /\ pc = "done"
  /\ document.strict
  /\ document.doctype # 0
  /\ document.html # 0
  /\ document.head # 0
  /\ document.body # 0

\* the tables a read of tables has returned
returnedTables ==
  IF returnValue.method \in {"tables", "node.tables"} /\ ~returnValue.none
  THEN {returnValue.value[i] : i \in DOMAIN returnValue.value}
  ELSE {}

\* the child of a node that is an element of the name
isNamed(id, name) == nodes[id].kind = "element" /\ nodes[id].name = name

\* the first child of the element is an element of the name
firstIsNamed(id, name) ==
  Len(nodes[id].children) > 0 /\ isNamed(nodes[id].children[1], name)

\* the nodes of the rows
rowNodes(rows) == [i \in DOMAIN rows |-> rows[i].node]

\* C14: the buckets of a table.  When the first child of the table is a tr, the
\* head rows are the direct tr children whose first child is a th, the body rows
\* those whose first child is a td, there is no foot row, and rows lists these
\* head and body rows in document order.  Otherwise a thead at position 0, a
\* tbody at the position after it and a tfoot at the position after that give
\* their tr children to head, body and foot, and rows is head, then body, then
\* foot.  Either way a row of rows is in exactly one bucket and its cells are its
\* th and td children in order.
C14_TableBuckets ==
  \A T \in returnedTables :
    LET children == nodes[T.node].children
        tr == <<"t", "r">>
        isCell(id) == isNamed(id, <<"t", "h">>) \/ isNamed(id, <<"t", "d">>)
        trsOf(position, name) ==
          IF position <= Len(children) /\ isNamed(children[position], name)
          THEN SelectSeq(nodes[children[position]].children, LAMBDA id : isNamed(id, tr))
          ELSE <<>>
        next1(position, name) ==
          IF position <= Len(children) /\ isNamed(children[position], name)
          THEN position + 1 ELSE position
        tbodyAt == next1(1, <<"t", "h", "e", "a", "d">>)
        tfootAt == next1(tbodyAt, <<"t", "b", "o", "d", "y">>)
        buckets(row) == {b \in {"head", "body", "foot"} :
                           \E i \in DOMAIN T[b] : T[b][i] = row}
    IN /\ IF firstIsNamed(T.node, tr)
          THEN /\ rowNodes(T.head) =
                    SelectSeq(children, LAMBDA id : isNamed(id, tr)
                                                    /\ firstIsNamed(id, <<"t", "h">>))
               /\ rowNodes(T.body) =
                    SelectSeq(children, LAMBDA id : isNamed(id, tr)
                                                    /\ firstIsNamed(id, <<"t", "d">>))
               /\ T.foot = <<>>
               /\ rowNodes(T.rows) =
                    SelectSeq(children,
                              LAMBDA id : \E i \in DOMAIN T.head \cup DOMAIN T.body :
                                            \/ i \in DOMAIN T.head /\ T.head[i].node = id
                                            \/ i \in DOMAIN T.body /\ T.body[i].node = id)
          ELSE /\ rowNodes(T.head) = trsOf(1, <<"t", "h", "e", "a", "d">>)
               /\ rowNodes(T.body) = trsOf(tbodyAt, <<"t", "b", "o", "d", "y">>)
               /\ rowNodes(T.foot) = trsOf(tfootAt, <<"t", "f", "o", "o", "t">>)
               /\ T.rows = T.head \o T.body \o T.foot
       /\ \A i \in DOMAIN T.rows :
            /\ Cardinality(buckets(T.rows[i])) = 1
            /\ \A j \in DOMAIN T.rows : T.rows[j].node = T.rows[i].node => j = i
            /\ [k \in DOMAIN T.rows[i].cells |-> T.rows[i].cells[k].node] =
                 SelectSeq(nodes[T.rows[i].node].children, isCell)
       /\ \A b \in {"head", "body", "foot"} : \A i \in DOMAIN T[b] :
            \E j \in DOMAIN T.rows : T.rows[j] = T[b][i]

\* C14 happens: a table with a thead, a tbody and a tfoot has been read, each of
\* the three buckets holding a row
C14_Witness ==
  \E T \in returnedTables :
    /\ Len(T.head) = 1 /\ Len(T.body) = 1 /\ Len(T.foot) = 1
    /\ Len(T.rows) = 3

\* C15: the document constructed leniently from
\* `<table><tr><th>H</th></tr><tr><td>D</td></tr></table>` has a first table in
\* document.tables, its head one row with the cell text H, its body one row with
\* the cell text D, its rows the two in document order.
C15_TableExample ==
  (document.text = TableExample /\ returnValue.method = "tables") =>
    /\ ~returnValue.none
    /\ Len(returnValue.value) >= 1
    /\ LET first(T) ==
             /\ Len(T.head) = 1 /\ Len(T.head[1].cells) = 1
             /\ innerHtml(T.head[1].cells[1].node) = <<"H">>
             /\ Len(T.body) = 1 /\ Len(T.body[1].cells) = 1
             /\ innerHtml(T.body[1].cells[1].node) = <<"D">>
             /\ T.rows = T.head \o T.body
       IN first(returnValue.value[1])

\* C16: when the first child of the table is a tr, every direct tr child of the
\* table is a row: rows lists the direct tr children, each once, in document
\* order.
C16_AllDirectRows ==
  \A T \in returnedTables :
    firstIsNamed(T.node, <<"t", "r">>) =>
      rowNodes(T.rows) =
        SelectSeq(nodes[T.node].children, LAMBDA id : isNamed(id, <<"t", "r">>))

\* C17: an element matches the class name c (hasClass, getElementsByClassName)
\* exactly when c is one of the tokens its class attribute splits into on
\* whitespace, whatever the separator is (a space, a tab, a newline, several in
\* a row); an element without a class attribute matches no class name.
C17_ClassMatchesWhitespaceTokens ==
  LET RECURSIVE tokens(_)
      tokens(text) ==
        IF text = <<>> THEN {}
        ELSE IF isspace(Head(text)) THEN tokens(Tail(text))
        ELSE LET rest(n) == SubSeq(text, n + 1, Len(text))
                 n == CHOOSE n \in 1..Len(text) :
                        /\ \A j \in 1..n : ~isspace(text[j])
                        /\ n = Len(text) \/ isspace(text[n + 1])
             IN {SubSeq(text, 1, n)} \cup tokens(rest(n))
      matches(id, c) ==
        /\ nodes[id].kind = "element"
        /\ hasKey(nodes[id].attributes, ClassName)
        /\ c \in tokens(getItem(nodes[id].attributes, ClassName))
  IN /\ returnValue.method = "hasClass" =>
          returnValue.value = matches(searching.start, searching.filter.value)
     /\ returnValue.method = "getElementsByClassName" =>
          returnValue.value =
            SelectSeq(preOrder(searching.start),
                      LAMBDA id : matches(id, searching.filter.value))

\* C18: in strict mode a tag with an unquoted attribute name that has a
\* character which is neither alphanumeric nor one of - _ . is rejected: no
\* element of a strict construction carries such an attribute name.
C18_StrictAttributeNameCharacters ==
  document.strict =>
    \A id \in DOMAIN nodes :
      nodes[id].kind = "element" =>
        \A i \in DOMAIN nodes[id].attributes :
          \A char \in Range(nodes[id].attributes[i][1]) :
            isalnum(char) \/ char \in {"-", "_", "."}

\* the segments read from the text of the document
segmentsRead == tokenize(document.text, document.strict, NewParser, <<>>).segments

\* which of the segments the node is made of: the builder makes a node of an
\* open tag, of a text and, when it retains comments, of a comment
nodeSegment(id, segments) ==
  LET makesNode(segment) ==
        \/ segment.kind = "element" /\ segment.open
        \/ segment.kind = "text"
        \/ segment.kind = "comment" /\ document.comments
  IN SelectSeq([k \in DOMAIN segments |-> k], LAMBDA k : makesNode(segments[k]))[id]

\* the node is an element made of a self-closing tag, or of a name in the
\* always-self-closing set
selfClosed(id) ==
  LET closes(segments) == segments[nodeSegment(id, segments)].close
  IN /\ nodes[id].kind = "element"
     /\ \/ closes(segmentsRead)
        \/ nodes[id].name \in { <<"!", "d", "o", "c", "t", "y", "p", "e">>,
                                <<"m", "e", "t", "a">>, <<"i", "n", "p", "u", "t">>,
                                <<"b", "r">>, <<"i", "m", "g">> }

\* C19: an element made of a self-closing tag, or whose name is one of !doctype,
\* meta, input, br, img, never gets children from the builder: its children
\* list is empty in every state, and the node made of the segment that follows
\* its tag is attached where it is, to its parent or to the root list, after it.
C19_SelfClosedHasNoChildren ==
  \A id \in DOMAIN nodes :
    selfClosed(id) =>
      /\ nodes[id].children = <<>>
      /\ \A other \in DOMAIN nodes : nodes[other].parent # id
      /\ (/\ id + 1 \in DOMAIN nodes
          /\ LET adjacent(segments) ==
                   nodeSegment(id + 1, segments) = nodeSegment(id, segments) + 1
             IN adjacent(segmentsRead)) =>
           LET siblings == IF nodes[id].parent = 0 THEN document.rootList
                           ELSE nodes[nodes[id].parent].children
           IN /\ nodes[id + 1].parent = nodes[id].parent
              /\ \E k \in DOMAIN siblings :
                   /\ siblings[k] = id
                   /\ k + 1 \in DOMAIN siblings
                   /\ siblings[k + 1] = id + 1

\* C19 happens: inside an element, a self-closing tag and an always-self-closing
\* element have each been followed by a sibling
C19_Witness ==
  /\ pc = "done"
  /\ \E id \in DOMAIN nodes, void \in DOMAIN nodes :
       /\ selfClosed(id) /\ nodes[id].name = <<"a">>
       /\ selfClosed(void) /\ nodes[void].name = <<"b", "r">>
       /\ nodes[id].parent # 0 /\ nodes[void].parent = nodes[id].parent
       /\ Len(nodes[nodes[id].parent].children) = 3

\* C20: round trip.  The text that write(pretty = true, shrinkText = false)
\* returns for a leniently built document, constructed again leniently with the
\* same comment retention, gives the same trees: the same tag names, attributes
\* (names and values, also a value holding a double quote), text and nesting.
C20_WriteRoundTrip ==
  (returnValue.method = "write" /\ ~document.strict
   /\ returnValue.args.pretty /\ ~returnValue.args.shrinkText) =>
    LET again(st) == st.pc = "done" /\ trees(st) = trees(state)
    IN again(construct(returnValue.value, FALSE, document.comments))

\* C28: search(filter, maxResults = n) returns at most n nodes for every n >= 0,
\* every tree and every filter; with maxResults = 0 it returns the empty list.
C28_AtMostMaxResults ==
  (searching.pc = "returned" /\ searching.method = "search"
   /\ searching.maxResults # None) =>
    /\ Len(returnValue.value) <= searching.maxResults
    /\ searching.maxResults = 0 => returnValue.value = <<>>

\* C22: a _loadChildren call returns None or a close segment (close and not
\* open) that was read and matched no element so far; a caller that gets such a
\* segment from a nested call compares its name with the name of its own
\* element, and returns None when they are equal and the same close segment
\* otherwise.
C22_UnresolvedCloseReturned ==
  /\ (pc = "return" /\ response.kind # "None") =>
       /\ response.kind = "element" /\ response.close /\ ~response.open
       /\ response = unresolved.segment
  /\ [][(pc = "return" /\ top.fn = "_loadChildren" /\ response.kind # "None") =>
          /\ pc' = "return"
          /\ response' = IF response.name = nodes[top.parent].name
                         THEN NoSegment ELSE response]_vars

\* the nodes of the document in the order write meets them
documentOrder ==
  LET RECURSIVE each(_)
      each(ids) == IF ids = <<>> THEN <<>> ELSE preOrder(Head(ids)) \o each(Tail(ids))
  IN each(document.rootList)

\* the only child of its parent, a text that write has put on the line of the
\* parent (shrinkText, at most shrinkLimit characters)
collapsed(id) ==
  /\ returnValue.args.shrinkText
  /\ nodes[id].kind = "text"
  /\ nodes[id].parent # 0
  /\ Len(nodes[nodes[id].parent].children) = 1
  /\ Len(nodes[id].text) <= returnValue.args.shrinkLimit

\* the text written is a sequence of lines with one CR+LF between two lines; the
\* lines that are not the line of a close tag are the lines of the nodes to be
\* on a line of their own, in document order, each indented by its depth
nodeLines(text, onLine(_)) ==
  LET RECURSIVE lines(_)
      lines(rest) ==
        IF \E i \in 1..(Len(rest) - 1) : rest[i] = "\r" /\ rest[i + 1] = "\n"
        THEN LET i == CHOOSE i \in 1..(Len(rest) - 1) :
                        /\ rest[i] = "\r" /\ rest[i + 1] = "\n"
                        /\ \A j \in 1..(i - 1) : ~(rest[j] = "\r" /\ rest[j + 1] = "\n")
             IN <<SubSeq(rest, 1, i - 1)>> \o lines(SubSeq(rest, i + 2, Len(rest)))
        ELSE <<rest>>
      RECURSIVE depth(_)
      depth(id) == IF nodes[id].parent = 0 THEN 0 ELSE 1 + depth(nodes[id].parent)
      indentation(line) ==
        Cardinality({k \in DOMAIN line : \A j \in 1..k : isspace(line[j])})
      closes(line) ==
        /\ Len(line) >= indentation(line) + 2
        /\ SubSeq(line, indentation(line) + 1, indentation(line) + 2) = <<"<", "/">>
      width(id) == IF returnValue.args.tabs THEN depth(id)
                   ELSE depth(id) * returnValue.args.indent
      fill == IF returnValue.args.tabs THEN "\t" ELSE " "
      agree(written, expected) ==
        /\ Len(written) = Len(expected)
        /\ \A k \in DOMAIN written :
             /\ indentation(written[k]) = width(expected[k])
             /\ \A j \in 1..width(expected[k]) : written[k][j] = fill
             /\ Len(written[k]) > indentation(written[k])
  IN agree(SelectSeq(lines(text), LAMBDA line : ~closes(line)),
           SelectSeq(documentOrder, onLine))

\* C21 as stated: with pretty-printing the output of write never starts with a
\* line terminator, and every node other than the first of the document is
\* preceded by exactly one CR+LF followed by its indentation, depth x indent
\* spaces or depth tabs.
C21_EveryNodeOnItsLine ==
  (returnValue.method = "write" /\ returnValue.args.pretty /\ nodes # <<>>) =>
    /\ ~(Len(returnValue.value) >= 2 /\ returnValue.value[1] = "\r"
         /\ returnValue.value[2] = "\n")
    /\ nodeLines(returnValue.value, LAMBDA id : TRUE)

\* C21, amended: with pretty-printing the output of write never starts with a
\* line terminator, and every node other than the first of the document is
\* preceded by exactly one CR+LF followed by its indentation, depth x indent
\* spaces or depth tabs, except an only child that is a text of at most
\* shrinkLimit characters when shrinkText is set: it follows the open tag of its
\* parent on the same line.
C21_EveryNodeOnItsLineUnlessCollapsed ==
  (returnValue.method = "write" /\ returnValue.args.pretty /\ nodes # <<>>) =>
    /\ ~(Len(returnValue.value) >= 2 /\ returnValue.value[1] = "\r"
         /\ returnValue.value[2] = "\n")
    /\ nodeLines(returnValue.value, LAMBDA id : ~collapsed(id))
    /\ \A id \in DOMAIN nodes :
         collapsed(id) =>
           \E i \in 1..Len(returnValue.value) :
             LET parent == nodes[nodes[id].parent]
                 opened == <<"<">> \o parent.name
                 from(k) == SubSeq(returnValue.value, k, Len(returnValue.value))
                 starts(text, with) ==
                   Len(text) >= Len(with) /\ SubSeq(text, 1, Len(with)) = with
             IN /\ starts(from(i), opened)
                /\ \E k \in i..Len(returnValue.value) :
                     /\ returnValue.value[k] = ">"
                     /\ \A j \in i..k :
                          returnValue.value[j] \notin {"\r", "\n"}
                     /\ starts(from(k + 1), nodes[id].text \o <<"<", "/">> \o parent.name)

\* C21 happens: a document has been written with tabs, an element on a line of
\* its own below its parent and its only child, a text, on the same line
C21_Witness ==
  /\ returnValue.method = "write"
  /\ returnValue.args.pretty /\ returnValue.args.tabs
  /\ \E id \in DOMAIN nodes :
       /\ collapsed(id)
       /\ nodes[nodes[id].parent].parent # 0

\* C24: every segment next() returns has start < end and starts at or after the
\* end of the segment returned before it, so that the segments come in source
\* order and do not overlap; when next() has reached the end of the input, the
\* characters of the input that no returned segment covers are whitespace.
C24_SegmentsInSourceOrder ==
  LET ordered(segments) ==
        /\ \A i \in DOMAIN segments : segments[i].start < segments[i].end
        /\ \A i \in DOMAIN segments :
             i > 1 => segments[i].start >= segments[i - 1].end
      covered(segments, p) ==
        \E i \in DOMAIN segments : segments[i].start <= p /\ p < segments[i].end
      read(tokens) ==
        /\ ordered(tokens.segments)
        /\ tokens.exc = "" =>
             \A p \in 0..(Len(document.text) - 1) :
               covered(tokens.segments, p) \/ isspace(At(document.text, p))
  IN pc \in {"done", "raised"} =>
       read(tokenize(document.text, document.strict, NewParser, <<>>))

\* C23: the lookahead cache.  The cache holds nothing or the one tag or comment
\* that ended the text segment just returned, which starts where that text ends.
\* The call of next() that follows returns exactly the cached segment and
\* leaves the cache empty, so that no segment is returned twice and none is
\* skipped: a returned segment starts at the cursor or after whitespace only.
\* No cached segment is lost: a construction that has returned has an empty
\* cache.
C23_LookaheadCache ==
  /\ [](parser.segmentNext.kind # "None" =>
          /\ parser.segmentNext.kind \in {"element", "comment"}
          /\ parser.segmentCurrent.kind = "text"
          /\ parser.segmentNext.start = parser.segmentCurrent.end
          /\ parser.position = parser.segmentCurrent.end
          /\ parser.position < Len(document.text))
  /\ [](pc = "done" => parser.segmentNext.kind = "None")
  /\ [][(pc = "loop" /\ parser.segmentNext.kind # "None") =>
          /\ parser'.segmentCurrent = parser.segmentNext
          /\ parser'.segmentNext.kind = "None"
          /\ parser'.position = parser.segmentNext.end]_vars
  /\ [][(pc = "loop" /\ parser'.segmentCurrent # parser.segmentCurrent) =>
          /\ parser'.segmentCurrent.start >= parser.position
          /\ \A p \in parser.position..(parser'.segmentCurrent.start - 1) :
               isspace(At(document.text, p))
          /\ parser'.position = parser'.segmentCurrent.end]_vars

\* C23 happens: a text has been returned whose end, a tag, is in the cache
C23_Witness ==
  /\ pc = "loop"
  /\ parser.segmentCurrent.kind = "text"
  /\ parser.segmentNext.kind = "element"
  /\ parser.segmentNext.start > 0

\* C25: after the construction every node of the tree occurs exactly once in it,
\* in the root list or in the children of exactly one element; the parent of a
\* node in the children of an element is that element, the parent of a node in
\* the root list is None, and the parent links from any node reach None in
\* finitely many steps: there is no cycle.
C25_TreeOwnership ==
  LET siblings(p) == IF p = 0 THEN document.rootList ELSE nodes[p].children
      places(id) == {place \in (0..Len(nodes)) \X (1..Len(nodes)) :
                       /\ place[2] \in DOMAIN siblings(place[1])
                       /\ siblings(place[1])[place[2]] = id}
      RECURSIVE reachesNone(_, _)
      reachesNone(id, steps) ==
        \/ id = 0
        \/ steps > 0 /\ reachesNone(nodes[id].parent, steps - 1)
      RECURSIVE reachable(_)
      reachable(ids) ==
        IF ids = <<>> THEN {}
        ELSE {Head(ids)} \cup reachable(nodes[Head(ids)].children)
             \cup reachable(Tail(ids))
  IN pc = "done" =>
       /\ reachable(document.rootList) = DOMAIN nodes
       /\ \A id \in DOMAIN nodes :
            /\ Cardinality(places(id)) = 1
            /\ \A place \in places(id) : nodes[id].parent = place[1]
            /\ nodes[id].parent # 0 => nodes[nodes[id].parent].kind = "element"
            /\ reachesNone(id, Len(nodes))

\* C25 happens: a construction has returned a tree of three levels beside
\* another root node
C25_Witness ==
  /\ pc = "done"
  /\ Len(document.rootList) > 1
  /\ \E id \in DOMAIN nodes :
       nodes[id].parent # 0 /\ nodes[nodes[id].parent].parent # 0

\* C27: node conservation and order.  In lenient mode with comments retained,
\* the depth-first pre-order of the tree built lists exactly one node for each
\* open element, text and comment segment the tokenizer has returned, in the
\* order of the segments; a close segment makes no node, and mismatch recovery
\* neither loses nor duplicates a node.
C27_NodesAreSegmentsInOrder ==
  LET made(segments) ==
        SelectSeq(segments, LAMBDA segment : segment.kind # "element" \/ segment.open)
      ofSegment(segment) ==
        [kind |-> segment.kind, name |-> segment.name,
         attributes |-> segment.attributes, text |-> segment.text]
      ofNode(id) ==
        [kind |-> nodes[id].kind, name |-> nodes[id].name,
         attributes |-> nodes[id].attributes, text |-> nodes[id].text]
      same(order, segments) ==
        /\ Len(order) = Len(segments)
        /\ \A k \in DOMAIN order : ofNode(order[k]) = ofSegment(segments[k])
        /\ \A k \in DOMAIN order : \A j \in DOMAIN order : order[k] = order[j] => k = j
        /\ Len(order) = Len(nodes)
  IN (pc = "done" /\ ~document.strict /\ document.comments) =>
       same(documentOrder, made(segmentsRead))

\* C27 happens: a lenient construction that retains comments has returned a tree
\* with a comment and a nested element that a close tag has not closed, the
\* close tag having made no node
C27_Witness ==
  /\ pc = "done" /\ ~document.strict /\ document.comments
  /\ \E id \in DOMAIN nodes : nodes[id].kind = "comment"
  /\ \E id \in DOMAIN nodes : closure[id] = "implicit" /\ nodes[id].parent # 0
  /\ Len(nodes) < Len(segmentsRead)

\* C26: termination.  A call of next() that returns a segment moves the cursor
\* forward and the cursor never moves backwards; every call of next() uses up
\* an input character or ends a level of the recursion, so that a construction
\* makes at most one call for each character of the input and one more, at the
\* end of the input, for each open level, and then returns or raises.
C26_ConstructionTerminates ==
  /\ <>(pc \in {"done", "raised"})
  /\ [](pc \notin {"done", "raised"} => step(state) # state)
  /\ [][parser'.position >= parser.position]_vars
  /\ [][(pc = "loop" /\ parser'.segmentCurrent # parser.segmentCurrent) =>
          parser'.position > parser.position]_vars
  /\ [][pc = "loop" =>
          \/ pc' \in {"done", "raised"}
          \/ (Len(document.text) - parser'.position) + Len(stack')
               < (Len(document.text) - parser.position) + Len(stack)]_vars
  /\ [](parser.position <= Len(document.text) /\ Len(stack) >= 1)

\* C26 happens: a construction has returned after the end of the input was met
\* two levels deep
C26_Witness ==
  /\ pc = "done"
  /\ \E id \in DOMAIN nodes :
       /\ closure[id] = "implicit"
       /\ nodes[id].parent # 0
       /\ closure[nodes[id].parent] = "implicit"
  /\ parser.position = Len(document.text)

====
